---------------------------- MODULE Spec2Model ----------------------------
(***************************************************************************)
(* A model of the svZeroDPlus numerical core: the dense and sparse linear  *)
(* systems (system.hpp), the generalized-alpha Integrator (integrator.hpp),*)
(* the Model's steady/unsteady switch (Model.cpp) and the driver run()     *)
(* (main.hpp).                                                             *)
(*                                                                         *)
(* Scalars of type double are modelled as exact rationals <<n, d>> in      *)
(* lowest terms with d > 0; floating-point rounding, infinities and NaN    *)
(* are outside the model.                                                  *)
(***************************************************************************)
EXTENDS Integers, Sequences, FiniteSets, TLC

(***************************************************************************)
(* Bounds of the model.                                                    *)
(***************************************************************************)
\* number of global DOFs (rows and columns of the system)
NDof == 2
\* largest maximum_nonlinear_iterations an Integrator is constructed with
MaxIter == 3

(***************************************************************************)
(* Rational arithmetic standing for C++ double arithmetic.                 *)
(***************************************************************************)
Abs(x) == IF x < 0 THEN -x ELSE x

RECURSIVE Gcd(_, _)
Gcd(a, b) == IF b = 0 THEN a ELSE Gcd(b, a % b)

Norm(n, d) ==
    LET g == Gcd(Abs(n), Abs(d))
        s == IF d < 0 THEN -1 ELSE 1
    IN  <<(s * n) \div g, (s * d) \div g>>

R(n) == <<n, 1>>
Zero == <<0, 1>>
One == <<1, 1>>
Half == <<1, 2>>

RNeg(a) == <<-a[1], a[2]>>

RAdd(a, b) ==
    LET g == Gcd(a[2], b[2])
        l == (a[2] \div g) * b[2]
    IN  Norm(a[1] * (l \div a[2]) + b[1] * (l \div b[2]), l)

RSub(a, b) == RAdd(a, RNeg(b))

RMul(a, b) ==
    LET g1 == Gcd(Abs(a[1]), b[2])
        g2 == Gcd(Abs(b[1]), a[2])
    IN  Norm((a[1] \div g1) * (b[1] \div g2), (a[2] \div g2) * (b[2] \div g1))

RInv(a) == IF a[1] < 0 THEN <<-a[2], -a[1]>> ELSE <<a[2], a[1]>>

RDiv(a, b) == RMul(a, RInv(b))

RAbs(a) == <<Abs(a[1]), a[2]>>

RLt(a, b) ==
    LET g == Gcd(a[2], b[2])
    IN  a[1] * (b[2] \div g) < b[1] * (a[2] \div g)

RMax(a, b) == IF RLt(a, b) THEN b ELSE a

(***************************************************************************)
(* Eigen vectors and matrices: functions over 1..NDof.                     *)
(***************************************************************************)
Dofs == 1..NDof

ZeroVec == [i \in Dofs |-> Zero]
ZeroMat == [i \in Dofs |-> [j \in Dofs |-> Zero]]
ConstVec(v) == [i \in Dofs |-> v]

VAdd(u, v) == [i \in Dofs |-> RAdd(u[i], v[i])]
VSub(u, v) == [i \in Dofs |-> RSub(u[i], v[i])]
VScale(u, s) == [i \in Dofs |-> RMul(u[i], s)]
VDivS(u, s) == [i \in Dofs |-> RDiv(u[i], s)]
VNeg(u) == [i \in Dofs |-> RNeg(u[i])]

MAdd(A, B) == [i \in Dofs |-> [j \in Dofs |-> RAdd(A[i][j], B[i][j])]]
MScale(A, s) == [i \in Dofs |-> [j \in Dofs |-> RMul(A[i][j], s)]]

RECURSIVE Dot(_, _, _)
Dot(row, v, k) ==
    IF k = 0 THEN Zero ELSE RAdd(Dot(row, v, k - 1), RMul(row[k], v[k]))

MatVec(A, v) == [i \in Dofs |-> Dot(A[i], v, NDof)]

\* residual.cwiseAbs().maxCoeff()
RECURSIVE MaxAbsUpTo(_, _)
MaxAbsUpTo(v, k) ==
    IF k = 1 THEN RAbs(v[1]) ELSE RMax(MaxAbsUpTo(v, k - 1), RAbs(v[k]))

MaxAbsCoeff(v) == MaxAbsUpTo(v, NDof)

\* a square matrix as a sequence of rows; Laplace expansion along row 1
DropAt(s, k) == [i \in 1..(Len(s) - 1) |-> IF i < k THEN s[i] ELSE s[i + 1]]

Minor(M, k) == [i \in 1..(Len(M) - 1) |-> DropAt(M[i + 1], k)]

RECURSIVE Det(_)
RECURSIVE DetSum(_, _)
DetSum(M, k) ==
    IF k = 0 THEN Zero
    ELSE LET term == RMul(M[1][k], Det(Minor(M, k)))
         IN  RAdd(DetSum(M, k - 1), IF k % 2 = 1 THEN term ELSE RNeg(term))

Det(M) == IF Len(M) = 0 THEN One ELSE DetSum(M, Len(M))

ReplaceCol(M, k, v) == [i \in Dofs |-> [j \in Dofs |-> IF j = k THEN v[i] ELSE M[i][j]]]

\* the exact solution x of A x = b for a nonsingular A (what an LU solve computes)
LinSolve(A, b) == [k \in Dofs |-> RDiv(Det(ReplaceCol(A, k, b)), Det(A))]

IsSingular(A) == Det(A) = Zero


(***************************************************************************)
(* State.                                                                  *)
(*   system  - the S<T> member of the Integrator (System or SparseSystem)  *)
(*   kind    - which of the two system classes S is                        *)
(*   integ   - the Integrator's members                                    *)
(*   stp     - the activation of Integrator::step: its arguments, locals   *)
(*             and position                                                *)
(*   calls   - the calls Integrator::step has made so far, in order        *)
(*   resids  - max|residual| at each residual evaluation of the step       *)
(*   model   - the MODEL::Model                                            *)
(*   run     - the activation of run()                                     *)
(*   saved   - history: the model as it was when to_steady was last called,*)
(*             the mode the callers have put the model in, the number of   *)
(*             to_steady calls, and whether the last call completed a     *)
(*             to_steady(); to_unsteady() pair; after a call that threw,   *)
(*             thrown and the model as it was before the call              *)
(***************************************************************************)
VARIABLES system, kind, integ, stp, calls, resids, model, run, saved

vars == <<system, kind, integ, stp, calls, resids, model, run, saved>>

(***************************************************************************)
(* System / SparseSystem (system.hpp).                                     *)
(***************************************************************************)
\* System<T>::System(n), SparseSystem<T>::SparseSystem(n): everything zero
NewSystem ==
    [F |-> ZeroMat, E |-> ZeroMat, dF |-> ZeroMat, dE |-> ZeroMat,
     dC |-> ZeroMat, C |-> ZeroVec, jacobian |-> ZeroMat,
     residual |-> ZeroVec, dy |-> ZeroVec, analyses |-> 0]

\* update_residual with the sign of C lost
SparseSystem_update_residual_PlusC(sys, y, ydot) ==
    [sys EXCEPT !.residual =
        VAdd(VSub(VNeg(MatVec(sys.E, ydot)), MatVec(sys.F, y)), sys.C)]

\* update_jacobian with dE scaled by e_coeff like E
System_update_jacobian_ScaledDE(sys, e_coeff) ==
    [sys EXCEPT !.jacobian =
        MAdd(MAdd(MAdd(sys.F, sys.dF), sys.dC),
             MScale(MAdd(sys.E, sys.dE), e_coeff))]

\* residual = -(E * ydot) - (F * y) - C
System_update_residual(sys, y, ydot) ==
    [sys EXCEPT !.residual =
        VSub(VSub(VNeg(MatVec(sys.E, ydot)), MatVec(sys.F, y)), sys.C)]

SparseSystem_update_residual(sys, y, ydot) ==
    [sys EXCEPT !.residual =
        VSub(VSub(VNeg(MatVec(sys.E, ydot)), MatVec(sys.F, y)), sys.C)]

\* jacobian = F + dE + dF + dC + E * e_coeff
System_update_jacobian(sys, e_coeff) ==
    [sys EXCEPT !.jacobian =
        MAdd(MAdd(MAdd(MAdd(sys.F, sys.dE), sys.dF), sys.dC),
             MScale(sys.E, e_coeff))]

SparseSystem_update_jacobian(sys, e_coeff) ==
    [sys EXCEPT !.jacobian =
        MAdd(MAdd(MAdd(MAdd(sys.F, sys.dE), sys.dF), sys.dC),
             MScale(sys.E, e_coeff))]

update_residual(sys, y, ydot) ==
    IF kind = "dense" THEN System_update_residual(sys, y, ydot)
    ELSE SparseSystem_update_residual(sys, y, ydot)

update_jacobian(sys, e_coeff) ==
    IF kind = "dense" THEN System_update_jacobian(sys, e_coeff)
    ELSE SparseSystem_update_jacobian(sys, e_coeff)

\* What a solve against a singular jacobian may leave in dy: neither
\* partialPivLu().solve nor SparseLU::compute/solve reports the failure to
\* the caller, and dy holds whatever the broken factorization yields.
SingularDy == {ZeroVec, ConstVec(One), ConstVec(R(-2))}

\* Eigen::SparseLU<...> solver; solver.compute(jacobian): the solver is a
\* local of SparseSystem::solve, so each call builds a new one, and compute
\* is analyzePattern followed by factorize.  sys.analyses counts the pattern
\* analyses made so far; the dense System has none.
SparseLU_compute(sys, k) ==
    [sys EXCEPT !.analyses = IF k = "sparse" THEN @ + 1 ELSE @]

\* dy = jacobian.partialPivLu().solve(residual)
\* solver.compute(jacobian); dy = solver.solve(residual)
SolveResults(sys) ==
    IF IsSingular(sys.jacobian) THEN SingularDy
    ELSE {LinSolve(sys.jacobian, sys.residual)}

(***************************************************************************)
(* Integrator (integrator.hpp).                                            *)
(***************************************************************************)
\* alpha_m with the factor 0.5 applied to rho alone
Alpha_m_HalfRho(rho) == RDiv(RSub(R(3), RMul(Half, rho)), RAdd(One, rho))

\* alpha_m = 0.5 * (3.0 - rho) / (1.0 + rho)
Alpha_m(rho) == RDiv(RMul(Half, RSub(R(3), rho)), RAdd(One, rho))

\* Integrator<T, S>::Integrator(system, time_step_size, rho, atol, max_iter)
NewIntegrator(time_step_size, rho, atol, max_iter) ==
    LET alpha_m == Alpha_m(rho)
        alpha_f == RDiv(One, RAdd(One, rho))
        gamma == RSub(RAdd(Half, alpha_m), alpha_f)
        time_step_size_inv == RDiv(One, time_step_size)
    IN  [rho |-> rho,   \* the constructor's argument, kept for reference
         alpha_m |-> alpha_m,
         alpha_f |-> alpha_f,
         alpha_m_inv |-> RDiv(alpha_m, One),
         alpha_f_inv |-> RDiv(alpha_f, One),
         gamma |-> gamma,
         gamma_inv |-> RDiv(One, gamma),
         time_step_size |-> time_step_size,
         atol |-> atol,
         max_iter |-> max_iter,
         time_step_size_inv |-> time_step_size_inv,
         y_af |-> ZeroVec,
         ydot_am |-> ZeroVec,
         y_dot_coeff |-> RMul(RDiv(alpha_m, RMul(alpha_f, gamma)),
                              time_step_size_inv)]

\* the predictor with ydot scaled by (gamma - 1) / gamma
Predictor_GammaMinusOne(ig, old_state) ==
    [y |-> VAdd(old_state.y,
                VScale(old_state.ydot, RMul(Half, ig.time_step_size))),
     ydot |-> VScale(VScale(old_state.ydot, RSub(ig.gamma, One)),
                     ig.gamma_inv)]

\* Predictor step
Predictor(ig, old_state) ==
    [y |-> VAdd(old_state.y,
                VScale(old_state.ydot, RMul(Half, ig.time_step_size))),
     ydot |-> VScale(VScale(old_state.ydot, RSub(ig.gamma, Half)),
                     ig.gamma_inv)]

\* Initiator step: the new y_af and ydot_am
Initiator(ig, old_state, new_state) ==
    [y_af |-> VAdd(old_state.y,
                   VScale(VSub(new_state.y, old_state.y), ig.alpha_f)),
     ydot_am |-> VAdd(old_state.ydot,
                      VScale(VSub(new_state.ydot, old_state.ydot), ig.alpha_m))]

\* the new time taken at alpha_m instead of alpha_f
NewTime_AlphaM(ig, time) == RAdd(time, RMul(ig.alpha_m, ig.time_step_size))

\* Determine new time
NewTime(ig, time) == RAdd(time, RMul(ig.alpha_f, ig.time_step_size))

\* the abort test one iteration late
ToleranceCheck_OffByOne(ig, sys, i) ==
    IF RLt(MaxAbsCoeff(sys.residual), ig.atol) THEN "corrector"
    ELSE IF i = ig.max_iter THEN "failed"
    ELSE "update_jacobian"

\* if (residual.cwiseAbs().maxCoeff() < atol) break;
\* else if (i == max_iter - 1) throw std::runtime_error(...);
\* the position the step continues at
ToleranceCheck(ig, sys, i) ==
    IF RLt(MaxAbsCoeff(sys.residual), ig.atol) THEN "corrector"
    ELSE IF i = ig.max_iter - 1 THEN "failed"
    ELSE "update_jacobian"

\* Set new state
Corrector(ig, old_state) ==
    [y |-> VAdd(old_state.y,
                VScale(VSub(ig.y_af, old_state.y), ig.alpha_f_inv)),
     ydot |-> VAdd(old_state.ydot,
                   VDivS(VSub(ig.ydot_am, old_state.ydot), ig.alpha_m_inv))]

(***************************************************************************)
(* Parameter.  Ids are 0-based as in the code; the id-th element of a      *)
(* std::vector is element id + 1 of the sequence modelling it.             *)
(***************************************************************************)
RECURSIVE SumSeq(_, _)
SumSeq(s, k) == IF k = 0 THEN Zero ELSE RAdd(SumSeq(s, k - 1), s[k])

\* Parameter(id, value)
Parameter_const(v) ==
    [isconstant |-> TRUE, value |-> v, times |-> <<>>, values |-> <<>>,
     is_periodic |-> TRUE, steady_converted |-> FALSE]

\* Parameter(id, times, values, periodic)
Parameter_curve(times, values, periodic) ==
    IF Len(values) = 1
    THEN [Parameter_const(values[1]) EXCEPT !.is_periodic = periodic]
    ELSE [isconstant |-> FALSE, value |-> Zero, times |-> times,
          values |-> values, is_periodic |-> periodic,
          steady_converted |-> FALSE]

Parameter_cycle_period(p) == RSub(p.times[Len(p.times)], p.times[1])

\* floor of a rational
RFloor(a) == a[1] \div a[2]

\* t reduced modulo the cycle period
RMod(t, period) == RSub(t, RMul(R(RFloor(RDiv(t, period))), period))

RLe(a, b) == ~RLt(b, a)

\* Parameter::get(time): the constant, or the piecewise-linear curve at
\* time (reduced modulo cycle_period if periodic, clamped otherwise)
Parameter_get(p, time) ==
    IF p.isconstant THEN p.value
    ELSE LET n == Len(p.times)
             rt == IF p.is_periodic
                   THEN RAdd(p.times[1],
                             RMod(RSub(time, p.times[1]), Parameter_cycle_period(p)))
                   ELSE time
         IN  IF RLe(rt, p.times[1]) THEN p.values[1]
             ELSE IF RLe(p.times[n], rt) THEN p.values[n]
             ELSE LET k == CHOOSE j \in 2..n :
                               /\ RLt(p.times[j - 1], rt)
                               /\ RLe(rt, p.times[j])
                  IN  RAdd(p.values[k - 1],
                           RMul(RDiv(RSub(p.values[k], p.values[k - 1]),
                                     RSub(p.times[k], p.times[k - 1])),
                                RSub(rt, p.times[k - 1])))

\* Parameter::to_steady(): the curve is kept and its mean takes its place
Parameter_to_steady(p) ==
    IF p.isconstant THEN p
    ELSE [p EXCEPT !.value = RDiv(SumSeq(p.values, Len(p.values)),
                                  R(Len(p.values))),
                   !.isconstant = TRUE,
                   !.steady_converted = TRUE]

\* Parameter::to_unsteady(): the curve is restored
Parameter_to_unsteady(p) ==
    IF p.steady_converted
    THEN [p EXCEPT !.isconstant = FALSE, !.value = Zero,
                   !.steady_converted = FALSE]
    ELSE p

\* Parameter::update(value): the parameter becomes the constant value
Parameter_update(p, v) == [p EXCEPT !.isconstant = TRUE, !.value = v]

(***************************************************************************)
(* Model (Model.cpp).  A block object is named by the id add_block gave    *)
(* it; blocks and hidden_blocks hold these objects in insertion order.     *)
(***************************************************************************)
NewModel ==
    [parameters |-> <<>>, parameter_values |-> <<>>,
     param_value_cache |-> {},
     blocks |-> <<>>, hidden_blocks |-> <<>>,
     block_types |-> <<>>, block_names |-> <<>>,
     steady |-> <<>>, global_param_ids |-> <<>>, global_eqn_ids |-> <<>>,
     time |-> Zero, cardiac_cycle_period |-> R(-1),
     finalized |-> FALSE, crashed |-> FALSE,
     nodes |-> <<>>, inlet_nodes |-> <<>>, outlet_nodes |-> <<>>,
     global_var_ids |-> <<>>,
     dofhandler |-> [variables |-> 0, equations |-> 0],
     setup_dofs_calls |-> <<>>]

\* int Model::add_parameter(double value)
Model_add_parameter(m, value) ==
    [m EXCEPT !.parameters = Append(@, Parameter_const(value)),
              !.parameter_values = Append(@, Parameter_get(Parameter_const(value), Zero))]

\* int Model::add_block(block_type, block_param_ids, name, internal);
\* eqn_ids stands for the block's global_eqn_ids, assigned by setup_dofs
Model_add_block(m, block_type, block_param_ids, name, internal, eqn_ids) ==
    LET block_count == Len(m.block_types)
    IN  [m EXCEPT !.hidden_blocks = IF internal THEN Append(@, block_count) ELSE @,
                  !.blocks = IF internal THEN @ ELSE Append(@, block_count),
                  !.block_types = Append(@, block_type),
                  !.block_names = Append(@, name),
                  !.steady = Append(@, FALSE),
                  !.global_param_ids = Append(@, block_param_ids),
                  !.global_eqn_ids = Append(@, eqn_ids),
                  !.inlet_nodes = Append(@, <<>>),
                  !.outlet_nodes = Append(@, <<>>),
                  !.global_var_ids = Append(@, <<>>)]

\* FlowReferenceBC::update_time: system.C(global_eqn_ids[0]) = -Q(time)
FlowReferenceBC_update_time(sys, m, b) ==
    [sys EXCEPT !.C[m.global_eqn_ids[b + 1][1] + 1] =
        RNeg(m.parameter_values[m.global_param_ids[b + 1][1] + 1])]

Block_update_time(sys, m, b) ==
    IF m.block_types[b + 1] = "FLOWBC" THEN FlowReferenceBC_update_time(sys, m, b)
    ELSE sys

RECURSIVE BlocksUpdateTime(_, _, _)
BlocksUpdateTime(sys, m, k) ==
    IF k = 0 THEN sys
    ELSE Block_update_time(BlocksUpdateTime(sys, m, k - 1), m, m.blocks[k])

\* void Model::update_parameter_value(param_id, param_value)
Model_update_parameter_value(m, param_id, param_value) ==
    [m EXCEPT !.parameter_values[param_id + 1] = param_value]

\* update_time that also marks every block steady
Model_update_time_model_MarksSteady(m, time) ==
    [m EXCEPT !.time = time,
              !.steady = [k \in 1..Len(m.steady) |-> TRUE],
              !.parameter_values =
                  [k \in 1..Len(m.parameters) |-> Parameter_get(m.parameters[k], time)]]

\* update_time that sets the time and leaves parameter_values as they are
Model_update_time_model_NoRefresh(m, time) ==
    [m EXCEPT !.time = time]

\* void Model::update_time(system, time): the model after the call
Model_update_time_model(m, time) ==
    [m EXCEPT !.time = time,
              !.parameter_values =
                  [k \in 1..Len(m.parameters) |-> Parameter_get(m.parameters[k], time)]]

\* void Model::update_time(system, time): the system after the call
Model_update_time_system(sys, m, time) ==
    BlocksUpdateTime(sys, Model_update_time_model(m, time), Len(m.blocks))

\* Model::add_parameter(times, values, periodic) throws "Inconsistent
\* cardiac cycle period defined in parameters"
Model_add_parameter_throws(m, times, values, periodic) ==
    LET param == Parameter_curve(times, values, periodic)
    IN  /\ periodic
        /\ ~param.isconstant
        /\ RLt(Zero, m.cardiac_cycle_period)
        /\ Parameter_cycle_period(param) # m.cardiac_cycle_period

\* int Model::add_parameter(times, values, periodic), when it does not throw
Model_add_parameter_curve(m, times, values, periodic) ==
    LET param == Parameter_curve(times, values, periodic)
    IN  [m EXCEPT !.cardiac_cycle_period =
                      IF periodic /\ ~param.isconstant
                      THEN Parameter_cycle_period(param) ELSE @,
                  !.parameter_values = Append(@, Parameter_get(param, Zero)),
                  !.parameters = Append(@, param)]

\* add_parameter(times, values, periodic) that establishes the new cycle
\* period before it throws
Model_add_parameter_call_SetsFirst(m, times, values, periodic) ==
    IF Model_add_parameter_throws(m, times, values, periodic)
    THEN [model |-> [m EXCEPT !.cardiac_cycle_period =
                         Parameter_cycle_period(Parameter_curve(times, values, periodic))],
          thrown |-> TRUE]
    ELSE [model |-> Model_add_parameter_curve(m, times, values, periodic),
          thrown |-> FALSE]

\* a call of Model::add_parameter(times, values, periodic): the model it
\* leaves and whether it threw; parameter_count is Len(parameters)
Model_add_parameter_call(m, times, values, periodic) ==
    IF Model_add_parameter_throws(m, times, values, periodic)
    THEN [model |-> m, thrown |-> TRUE]
    ELSE [model |-> Model_add_parameter_curve(m, times, values, periodic),
          thrown |-> FALSE]

\* generate_block after the add_parameter call for an array parameter
generated_param(prev, call) ==
    <<call.model,
      IF call.thrown THEN prev[2]
      ELSE Append(prev[2], Len(prev[1].parameters)),
      call.thrown, prev[1]>>

\* generate_block reading one more input parameter p after prev
generate_param(prev, p) ==
    IF prev[3] THEN prev
    ELSE IF p.is_array
    THEN generated_param(prev, Model_add_parameter_call(prev[1], p.t, p.val,
                                                        p.periodic))
    ELSE <<Model_add_parameter(prev[1], p.val),
           Append(prev[2], Len(prev[1].parameters)), FALSE, prev[1]>>

\* generate_block reading the first k input parameters of config:
\* <<the model, block_param_ids, whether add_parameter threw, the model
\* before the call of add_parameter that threw>>
RECURSIVE generate_params(_, _, _)
generate_params(m, config, k) ==
    IF k = 0 THEN <<m, <<>>, FALSE, m>>
    ELSE generate_param(generate_params(m, config, k - 1), config[k])

\* generate_block is left by an exception of add_parameter
generate_block_throws(m, config) == generate_params(m, config, Len(config))[3]

\* int generate_block(model, config, block_name, name, internal, periodic):
\* the model it leaves, which has no new block if add_parameter threw
generated_block(g, block_type, name, internal) ==
    IF g[3] THEN g[1]
    ELSE Model_add_block(g[1], block_type, g[2], name, internal, <<>>)

generate_block(m, config, block_type, name, internal) ==
    generated_block(generate_params(m, config, Len(config)), block_type, name,
                    internal)

\* Block *Model::get_block(std::string_view name): the block object, -1 for
\* nullptr, -2 for the element read past the end of blocks
Model_get_block_by_name(m, name) ==
    IF \A k \in 1..Len(m.block_names) : m.block_names[k] # name THEN -1
    ELSE LET index == (CHOOSE k \in 1..Len(m.block_names) :
                          /\ m.block_names[k] = name
                          /\ \A j \in 1..(k - 1) : m.block_names[j] # name) - 1
         IN  IF index < Len(m.blocks) THEN m.blocks[index + 1] ELSE -2

\* Block *Model::get_block(int block_id)
Model_get_block(m, block_id) ==
    IF block_id >= Len(m.blocks)
    THEN m.hidden_blocks[block_id - Len(m.blocks) + 1]
    ELSE m.blocks[block_id + 1]

\* Parameter *Model::get_parameter(int param_id), then Parameter::update
Model_get_parameter_update(m, param_id, v) ==
    [m EXCEPT !.parameters[param_id + 1] = Parameter_update(@, v)]

\* void Model::finalize(): the default cardiac cycle period; the degrees of
\* freedom it sets up before are Model_setup_dofs
Model_finalize(m) ==
    [m EXCEPT !.cardiac_cycle_period = IF RLt(@, Zero) THEN One ELSE @,
              !.finalized = TRUE]

\* int Model::get_num_blocks(bool internal)
Model_get_num_blocks(m, internal) ==
    Len(m.blocks) + (IF internal THEN Len(m.hidden_blocks) ELSE 0)

WindkesselTypes == {"WINDKESSELBC", "CLOSEDLOOPRCRBC"}

\* to_steady: value = parameters[id].get(0.0);
\* param_value_cache.insert({id, value}); parameters[id].update(0.0)
CacheCapacitance(m, id) ==
    LET value == Parameter_get(m.parameters[id + 1], Zero)
    IN  [m EXCEPT !.param_value_cache =
                      IF \E e \in @ : e[1] = id THEN @ ELSE @ \cup {<<id, value>>},
                  !.parameters[id + 1] = Parameter_update(@, Zero)]

\* to_steady: blocks[i]->global_param_ids[1].  Read past the end of blocks
\* or of global_param_ids it is any parameter id, or the process dies (-1).
CapacitanceIdRead(m, i) ==
    IF i < Len(m.blocks) /\ Len(m.global_param_ids[m.blocks[i + 1] + 1]) >= 2
    THEN {m.global_param_ids[m.blocks[i + 1] + 1][2]}
    ELSE {-1} \cup (0..(Len(m.parameters) - 1))

\* to_steady: the models one iteration of its loop over the blocks can leave
to_steady_block(m, i) ==
    LET m1 == [m EXCEPT !.steady[Model_get_block(m, i) + 1] = TRUE]
    IN  IF m.block_types[i + 1] \in WindkesselTypes
        THEN {IF id = -1 THEN [m1 EXCEPT !.crashed = TRUE]
                         ELSE CacheCapacitance(m1, id) :
                 id \in CapacitanceIdRead(m1, i)}
        ELSE {m1}

\* to_steady: the models iterations i, i + 1, ... of the loop can leave
RECURSIVE to_steady_blocks(_, _)
to_steady_blocks(m, i) ==
    IF m.crashed \/ i >= Model_get_num_blocks(m, TRUE) THEN {m}
    ELSE UNION {to_steady_blocks(m2, i + 1) : m2 \in to_steady_block(m, i)}

\* void Model::to_steady(): the models the call can leave
Model_to_steady(m) ==
    to_steady_blocks(
        [m EXCEPT !.parameters =
            [k \in 1..Len(m.parameters) |-> Parameter_to_steady(m.parameters[k])]],
        0)

\* void Model::to_unsteady()
Model_to_unsteady(m) ==
    [m EXCEPT
        !.parameters =
            [k \in 1..Len(m.parameters) |->
                LET p == Parameter_to_unsteady(m.parameters[k])
                IN  IF \E e \in m.param_value_cache : e[1] = k - 1
                    THEN Parameter_update(p,
                             (CHOOSE e \in m.param_value_cache : e[1] = k - 1)[2])
                    ELSE p],
        !.steady = [k \in 1..Len(m.steady) |-> FALSE]]

(***************************************************************************)
(* Integrator::step, one action per statement of its body.                 *)
(***************************************************************************)
Idle == [pc |-> "none"]

NotSaved == [model |-> NewModel, mode |-> "unsteady", pairs |-> 0,
             roundtrip |-> FALSE, thrown |-> FALSE]

\* Entries a block's update_solution writes into C and dC: the blocks with
\* solution-dependent terms write values that depend on y_af; any of these
\* pairs may be what one call leaves in row NDof.
SolutionTerms == {<<Zero, Zero>>, <<One, Zero>>, <<One, One>>}

\* State<T> old_state = state; predictor; initiator; new_time
StepBegin ==
    /\ stp.pc = "idle"
    /\ LET old_state == stp.state
           new_state == Predictor(integ, old_state)
           init == Initiator(integ, old_state, new_state)
       IN  /\ stp' = [stp EXCEPT !.pc = "update_time",
                                 !.old_state = old_state,
                                 !.new_state = new_state,
                                 !.new_time = NewTime(integ, stp.time)]
           /\ integ' = [integ EXCEPT !.y_af = init.y_af,
                                     !.ydot_am = init.ydot_am]
    /\ UNCHANGED <<system, kind, calls, resids, model, run, saved>>

\* model.update_time(system, new_time); then i = 0
StepUpdateTime ==
    /\ stp.pc = "update_time"
    /\ model' = Model_update_time_model(model, stp.new_time)
    /\ system' = Model_update_time_system(system, model, stp.new_time)
    /\ calls' = Append(calls, <<"update_time", stp.new_time>>)
    /\ stp' = [stp EXCEPT !.pc = "loop", !.i = 0]
    /\ UNCHANGED <<kind, integ, resids, run, saved>>

\* the loop test i <= max_iter
StepLoopTest_Inclusive ==
    /\ stp.pc = "loop"
    /\ stp' = [stp EXCEPT !.pc = IF stp.i <= integ.max_iter
                                 THEN "update_solution" ELSE "corrector"]
    /\ UNCHANGED <<system, kind, integ, calls, resids, model, run, saved>>

\* i < max_iter
StepLoopTest ==
    /\ stp.pc = "loop"
    /\ stp' = [stp EXCEPT !.pc = IF stp.i < integ.max_iter
                                 THEN "update_solution" ELSE "corrector"]
    /\ UNCHANGED <<system, kind, integ, calls, resids, model, run, saved>>

\* model.update_solution(system, y_af)
StepUpdateSolution ==
    /\ stp.pc = "update_solution"
    /\ \E t \in SolutionTerms :
          system' = [system EXCEPT !.C[NDof] = t[1], !.dC[NDof][NDof] = t[2]]
    /\ calls' = Append(calls, <<"update_solution", stp.i>>)
    /\ stp' = [stp EXCEPT !.pc = "update_residual"]
    /\ UNCHANGED <<kind, integ, resids, model, run, saved>>

\* system.update_residual(y_af, ydot_am)
StepUpdateResidual ==
    /\ stp.pc = "update_residual"
    /\ system' = update_residual(system, integ.y_af, integ.ydot_am)
    /\ resids' = Append(resids, MaxAbsCoeff(system'.residual))
    /\ calls' = Append(calls, <<"update_residual", stp.i>>)
    /\ stp' = [stp EXCEPT !.pc = "check"]
    /\ UNCHANGED <<kind, integ, model, run, saved>>

\* if (residual.cwiseAbs().maxCoeff() < atol) break;
\* else if (i == max_iter - 1) throw
StepCheck ==
    /\ stp.pc = "check"
    /\ stp' = [stp EXCEPT !.pc = ToleranceCheck(integ, system, stp.i)]
    /\ calls' = Append(calls, <<"check", stp.i>>)
    /\ UNCHANGED <<system, kind, integ, resids, model, run, saved>>

\* system.update_jacobian(y_dot_coeff)
StepUpdateJacobian ==
    /\ stp.pc = "update_jacobian"
    /\ system' = update_jacobian(system, integ.y_dot_coeff)
    /\ calls' = Append(calls, <<"update_jacobian", stp.i>>)
    /\ stp' = [stp EXCEPT !.pc = "solve"]
    /\ UNCHANGED <<kind, integ, resids, model, run, saved>>

\* system.solve()
StepSolve ==
    /\ stp.pc = "solve"
    /\ \E dy \in SolveResults(system) :
          system' = [SparseLU_compute(system, kind) EXCEPT !.dy = dy]
    /\ calls' = Append(calls, <<"solve", stp.i>>)
    /\ stp' = [stp EXCEPT !.pc = "increment"]
    /\ UNCHANGED <<kind, integ, resids, model, run, saved>>

\* system.solve() of a SparseSystem with a singular jacobian in a build
\* with Eigen's assertions on: SparseLU::solve asserts that the matrix was
\* factorized and the process is aborted
StepSolveAbort ==
    /\ stp.pc = "solve"
    /\ kind = "sparse"
    /\ IsSingular(system.jacobian)
    /\ system' = SparseLU_compute(system, kind)
    /\ calls' = Append(calls, <<"solve", stp.i>>)
    /\ stp' = [stp EXCEPT !.pc = "aborted"]
    /\ UNCHANGED <<kind, integ, resids, model, run, saved>>

\* the increment added to the state passed to the step as well
StepIncrement_InPlace ==
    /\ stp.pc = "increment"
    /\ integ' = [integ EXCEPT
                    !.y_af = VAdd(@, system.dy),
                    !.ydot_am = VAdd(@, VScale(system.dy, integ.y_dot_coeff))]
    /\ calls' = Append(calls, <<"increment", stp.i>>)
    /\ stp' = [stp EXCEPT !.pc = "loop", !.i = @ + 1,
                          !.state.y = VAdd(@, system.dy)]
    /\ UNCHANGED <<system, kind, resids, model, run, saved>>

\* y_af += system.dy; ydot_am += system.dy * y_dot_coeff; i++
StepIncrement ==
    /\ stp.pc = "increment"
    /\ integ' = [integ EXCEPT
                    !.y_af = VAdd(@, system.dy),
                    !.ydot_am = VAdd(@, VScale(system.dy, integ.y_dot_coeff))]
    /\ calls' = Append(calls, <<"increment", stp.i>>)
    /\ stp' = [stp EXCEPT !.pc = "loop", !.i = @ + 1]
    /\ UNCHANGED <<system, kind, resids, model, run, saved>>

\* Set new state; return new_state
StepCorrector ==
    /\ stp.pc = "corrector"
    /\ stp' = [stp EXCEPT !.pc = "done",
                          !.new_state = Corrector(integ, stp.old_state)]
    /\ UNCHANGED <<system, kind, integ, calls, resids, model, run, saved>>

(***************************************************************************)
(* The systems, integrators and states a step is taken from.               *)
(***************************************************************************)
\* a matrix with a on the diagonal and b on the cyclic superdiagonal
Band(a, b) ==
    [i \in Dofs |-> [j \in Dofs |->
        IF i = j THEN R(a) ELSE IF j = (i % NDof) + 1 THEN R(b) ELSE Zero]]

SystemsF == {Band(1, 0), Band(1, -1)}
SystemsE == {Band(0, 0), Band(1, 0)}
\* <<dE, dF>>
SystemsD == {<<Band(0, 0), Band(0, 0)>>, <<Band(0, 1), Band(1, 0)>>}
\* <<rho, time_step_size>>: run() constructs its integrators with rho = 0.1;
\* each time step size makes y_dot_coeff an integer (1 and 4), which keeps
\* the Newton iterates within the range of the integers of the model checker
IntegratorParams == {<<<<1, 10>>, <<319, 200>>>>, <<One, Half>>}
Atols == {<<1, 100>>}
InitialValues == {Zero, One}
FlowValues == {One}

\* a model of one FlowReferenceBC with a constant flow q, on equation 0
StepModel(q) ==
    Model_add_block(Model_add_parameter(NewModel, q), "FLOWBC", <<0>>, "INFLOW",
                    FALSE, <<0>>)

Init ==
    /\ kind \in {"dense", "sparse"}
    /\ \E F \in SystemsF, E \in SystemsE, D \in SystemsD :
          system = [NewSystem EXCEPT !.F = F, !.E = E, !.dE = D[1], !.dF = D[2]]
    /\ \E ip \in IntegratorParams, atol \in Atols, mi \in 0..MaxIter :
          integ = NewIntegrator(ip[2], ip[1], atol, mi)
    /\ \E y0 \in InitialValues, yd0 \in InitialValues :
          stp = [pc |-> "idle", i |-> 0,
                 state |-> [y |-> ConstVec(y0), ydot |-> ConstVec(yd0)],
                 time |-> Zero,
                 old_state |-> [y |-> ZeroVec, ydot |-> ZeroVec],
                 new_state |-> [y |-> ZeroVec, ydot |-> ZeroVec],
                 new_time |-> Zero]
    /\ \E q \in FlowValues : model = StepModel(q)
    /\ calls = <<>>
    /\ resids = <<>>
    /\ run = Idle
    /\ saved = NotSaved

Next ==
    \/ StepBegin
    \/ StepUpdateTime
    \/ StepLoopTest
    \/ StepUpdateSolution
    \/ StepUpdateResidual
    \/ StepCheck
    \/ StepUpdateJacobian
    \/ StepSolve
    \/ StepSolveAbort
    \/ StepIncrement
    \/ StepCorrector

Spec == Init /\ [][Next]_vars

(***************************************************************************)
(* Building a Model and switching it between steady and unsteady mode.     *)
(***************************************************************************)
MaxBlocks == 2
MaxPairs == 2

\* a scalar input parameter of a block, and an array one with its times
Scalar(v) == [is_array |-> FALSE, val |-> v, t |-> <<>>, periodic |-> TRUE]
Array(t, val) == [is_array |-> TRUE, val |-> val, t |-> t, periodic |-> TRUE]

Capacitances == {One, R(2)}
UpdateValues == {R(3)}

\* the input parameters a configuration gives a block of each type:
\* FlowReferenceBC Q; Windkessel Rp, C, Rd, Pd; ResistanceBC R, Pd;
\* the heart block is given one of its parameters
BlockConfigs(block_type) ==
    CASE block_type = "FLOWBC" ->
             {<<Array(<<Zero>>, <<One>>)>>,
              <<Array(<<Zero, One>>, <<One, R(3)>>)>>,
              <<Array(<<Zero, R(2)>>, <<One, R(3)>>)>>}
      [] block_type = "WINDKESSELBC" ->
             {<<Scalar(One), Scalar(c), Scalar(One), Scalar(Zero)>> :
                 c \in Capacitances}
      [] block_type = "RESISTANCEBC" -> {<<Scalar(R(2)), Scalar(One)>>}
      [] block_type = "CLOSEDLOOPHEARTPULMONARY" -> {<<Scalar(One)>>}
      [] OTHER -> {<<>>}

ModelBlockTypes == {"FLOWBC", "WINDKESSELBC", "RESISTANCEBC"}

\* the name of the block with a given id
BlockNames == <<"B0", "B1", "B2", "B3">>

\* the capacitance parameters of the Windkessel and ClosedLoopRCR blocks
CapacitanceIds(m) ==
    {m.global_param_ids[k][2] :
        k \in {j \in 1..Len(m.block_types) : m.block_types[j] \in WindkesselTypes}}

NoRoundTrip == [saved EXCEPT !.roundtrip = FALSE, !.thrown = FALSE]

\* the history after a call that returned, or that threw from the model
\* before
AfterCall(thrown, before) ==
    [saved EXCEPT !.roundtrip = FALSE, !.thrown = thrown,
                  !.model = IF thrown THEN before ELSE @]

CyclePeriods == {One, R(2)}

\* generate_block(model, {}, "NORMAL_JUNCTION", name) for the junctions at
\* the inlet and the outlet of the heart: with no parameter to read, each
\* is the add_block that ends generate_block
heart_junctions(m) ==
    Model_add_block(Model_add_block(m, "JUNCTION", <<>>, "J_heart_inlet",
                                    FALSE, <<>>),
                    "JUNCTION", <<>>, "J_heart_outlet", FALSE, <<>>)

\* load_simulation_model creating a ClosedLoopHeartAndPulmonary block and
\* the junctions at its inlet and outlet: the model it leaves and whether
\* it threw
closed_loop_heart(m, cycle_period, config) ==
    IF \E i \in 1..Len(m.block_types) :
           m.block_types[i] = "CLOSEDLOOPHEARTPULMONARY"
    THEN [model |-> m, thrown |-> TRUE]
    ELSE IF /\ RLt(Zero, m.cardiac_cycle_period)
            /\ cycle_period # m.cardiac_cycle_period
    THEN [model |-> m, thrown |-> TRUE]
    ELSE LET m3 == [m EXCEPT !.cardiac_cycle_period = cycle_period]
             m4 == generate_block(m3, config, "CLOSEDLOOPHEARTPULMONARY",
                                  "CLH", FALSE)
         IN  [model |-> heart_junctions(m4), thrown |-> FALSE]

\* one closed_loop_blocks entry of type ClosedLoopHeartAndPulmonary
ModelClosedLoopHeart ==
    /\ ~model.finalized
    /\ Len(model.block_types) < MaxBlocks
    /\ \E cycle_period \in CyclePeriods :
       \E config \in BlockConfigs("CLOSEDLOOPHEARTPULMONARY") :
          LET call == closed_loop_heart(model, cycle_period, config)
          IN  /\ model' = call.model
              /\ saved' = AfterCall(call.thrown, model)
    /\ UNCHANGED <<system, kind, integ, stp, calls, resids, run>>

MaxParameters == 3

\* <<times, values, periodic>> of the add_parameter calls
ParameterInputs ==
    {<<<<Zero>>, <<One>>, TRUE>>,
     <<<<Zero, One>>, <<One, R(3)>>, TRUE>>,
     <<<<Zero, R(2)>>, <<One, R(3)>>, TRUE>>,
     <<<<Zero, R(2)>>, <<One, R(3)>>, FALSE>>}

\* model.add_parameter(times, values, periodic)
ModelAddParameter ==
    /\ Len(model.parameters) < MaxParameters
    /\ \E in \in ParameterInputs :
          LET call == Model_add_parameter_call(model, in[1], in[2], in[3])
          IN  /\ model' = call.model
              /\ saved' = AfterCall(call.thrown, model)
    /\ UNCHANGED <<system, kind, integ, stp, calls, resids, run>>

\* generate_block(model, config, block_name, name, internal)
\* generate_block after its parameters g were read
GeneratedBlock(g, block_type, internal) ==
    /\ model' = generated_block(g, block_type,
                                BlockNames[Len(model.block_types) + 1], internal)
    /\ saved' = AfterCall(g[3], g[4])

ModelGenerateBlock ==
    /\ ~model.finalized
    /\ Len(model.block_types) < MaxBlocks
    /\ \E block_type \in ModelBlockTypes, internal \in BOOLEAN :
          \E config \in BlockConfigs(block_type) :
              GeneratedBlock(generate_params(model, config, Len(config)),
                             block_type, internal)
    /\ UNCHANGED <<system, kind, integ, stp, calls, resids, run>>

\* model.finalize()
ModelFinalize ==
    /\ ~model.finalized
    /\ model' = Model_finalize(model)
    /\ saved' = NoRoundTrip
    /\ UNCHANGED <<system, kind, integ, stp, calls, resids, run>>

\* model.to_steady(), called on a model in unsteady mode
ModelToSteady ==
    /\ model.finalized
    /\ ~model.crashed
    /\ saved.mode = "unsteady"
    /\ saved.pairs < MaxPairs
    /\ model' \in Model_to_steady(model)
    /\ saved' = [model |-> model, mode |-> "steady", pairs |-> saved.pairs + 1,
                 roundtrip |-> FALSE, thrown |-> FALSE]
    /\ UNCHANGED <<system, kind, integ, stp, calls, resids, run>>

\* model.to_unsteady(), called right after to_steady()
ModelToUnsteady ==
    /\ model.finalized
    /\ ~model.crashed
    /\ saved.mode = "steady"
    /\ model' = Model_to_unsteady(model)
    /\ saved' = [saved EXCEPT !.mode = "unsteady", !.roundtrip = TRUE,
                              !.thrown = FALSE]
    /\ UNCHANGED <<system, kind, integ, stp, calls, resids, run>>

\* model.get_parameter(id)->update(value) on a capacitance, between two
\* to_steady(); to_unsteady() pairs
ModelParameterUpdate ==
    /\ model.finalized
    /\ ~model.crashed
    /\ saved.mode = "unsteady"
    /\ \E id \in CapacitanceIds(model), v \in UpdateValues :
          model' = Model_get_parameter_update(model, id, v)
    /\ saved' = NoRoundTrip
    /\ UNCHANGED <<system, kind, integ, stp, calls, resids, run>>

ModelInit ==
    /\ model = NewModel
    /\ saved = NotSaved
    /\ system = NewSystem
    /\ kind = "sparse"
    /\ integ = Idle
    /\ stp = Idle
    /\ calls = <<>>
    /\ resids = <<>>
    /\ run = Idle

ModelNext ==
    \/ ModelGenerateBlock
    \/ ModelFinalize
    \/ ModelToSteady
    \/ ModelToUnsteady
    \/ ModelParameterUpdate

ModelSpec == ModelInit /\ [][ModelNext]_vars

\* Parameters and blocks added to a model that is not finalized
ParamNext ==
    \/ ModelAddParameter
    \/ ModelClosedLoopHeart
    \/ ModelGenerateBlock

ParamSpec == ModelInit /\ [][ParamNext]_vars

(***************************************************************************)
(* The topology of a model: load_simulation_model adds the blocks, then a  *)
(* Node for every connection, then finalizes; the solver then has the      *)
(* blocks write their constant entries into a sparse system.  A block is   *)
(* named by the id add_block returned for it, a node by its id; a sparse   *)
(* matrix is the set of its entries <<row, column, value>>.                *)
(***************************************************************************)
MaxLoadBlocks == 3
MaxNodes == 3

\* this is pushed back on the node list of each of eles[1..k]
RECURSIVE PushNode(_, _, _, _)
PushNode(lists, eles, id, k) ==
    IF k = 0 THEN lists
    ELSE [PushNode(lists, eles, id, k - 1) EXCEPT ![eles[k] + 1] = Append(@, id)]

\* add_node whose node becomes the inlet of its inlet elements
Model_add_node_Swapped(m, inlet_eles, outlet_eles) ==
    [m EXCEPT !.nodes = Append(@, [inlet_eles |-> inlet_eles,
                                   outlet_eles |-> outlet_eles,
                                   flow_dof |-> -1, pres_dof |-> -1]),
              !.inlet_nodes = PushNode(@, inlet_eles, Len(m.nodes),
                                       Len(inlet_eles)),
              !.outlet_nodes = PushNode(@, outlet_eles, Len(m.nodes),
                                        Len(outlet_eles))]

\* int Model::add_node(inlet_eles, outlet_eles, name) with Node::Node
Model_add_node(m, inlet_eles, outlet_eles) ==
    [m EXCEPT !.nodes = Append(@, [inlet_eles |-> inlet_eles,
                                   outlet_eles |-> outlet_eles,
                                   flow_dof |-> -1, pres_dof |-> -1]),
              !.outlet_nodes = PushNode(@, inlet_eles, Len(m.nodes),
                                        Len(inlet_eles)),
              !.inlet_nodes = PushNode(@, outlet_eles, Len(m.nodes),
                                       Len(outlet_eles))]

\* Node::setup_dofs that registers one variable for flow and pressure
Node_setup_dofs_OneVariable(m, n) ==
    [m EXCEPT !.nodes[n + 1].flow_dof = m.dofhandler.variables,
              !.nodes[n + 1].pres_dof = m.dofhandler.variables,
              !.dofhandler.variables = @ + 1,
              !.setup_dofs_calls = Append(@, <<"node", n>>)]

\* void Node::setup_dofs(dofhandler)
Node_setup_dofs(m, n) ==
    [m EXCEPT !.nodes[n + 1].flow_dof = m.dofhandler.variables,
              !.nodes[n + 1].pres_dof = m.dofhandler.variables + 1,
              !.dofhandler.variables = @ + 2,
              !.setup_dofs_calls = Append(@, <<"node", n>>)]

\* the number of equations a block passes to Block::setup_dofs_
Block_num_equations(m, b) ==
    CASE m.block_types[b + 1] = "FLOWBC" -> 1
      [] m.block_types[b + 1] = "JUNCTION" ->
             Len(m.inlet_nodes[b + 1]) + Len(m.outlet_nodes[b + 1])
      [] m.block_types[b + 1] = "WINDKESSELBC" -> 2

\* the number of internal variables a block passes to Block::setup_dofs_
Block_num_internal(m, b) ==
    IF m.block_types[b + 1] = "WINDKESSELBC" THEN 1 ELSE 0

\* the pressure and the flow dof of the first k nodes of node_list
RECURSIVE NodeVarIds(_, _, _)
NodeVarIds(m, node_list, k) ==
    IF k = 0 THEN <<>>
    ELSE NodeVarIds(m, node_list, k - 1)
             \o <<m.nodes[node_list[k] + 1].pres_dof,
                  m.nodes[node_list[k] + 1].flow_dof>>

\* Block::setup_dofs_(dofhandler, num_equations, internal_var_names), called
\* by the setup_dofs of block b
Block_setup_dofs(m, b) ==
    LET num_equations == Block_num_equations(m, b)
        num_internal == Block_num_internal(m, b)
    IN  [m EXCEPT
            !.global_var_ids[b + 1] =
                NodeVarIds(m, m.inlet_nodes[b + 1], Len(m.inlet_nodes[b + 1]))
                \o NodeVarIds(m, m.outlet_nodes[b + 1],
                              Len(m.outlet_nodes[b + 1]))
                \o [i \in 1..num_internal |-> m.dofhandler.variables + i - 1],
            !.global_eqn_ids[b + 1] =
                [i \in 1..num_equations |-> m.dofhandler.equations + i - 1],
            !.dofhandler = [variables |-> @.variables + num_internal,
                            equations |-> @.equations + num_equations],
            !.setup_dofs_calls = Append(@, <<"block", b>>)]

RECURSIVE NodesSetupDofs(_, _)
NodesSetupDofs(m, k) ==
    IF k = 0 THEN m ELSE Node_setup_dofs(NodesSetupDofs(m, k - 1), k - 1)

RECURSIVE BlocksSetupDofs(_, _)
BlocksSetupDofs(m, k) ==
    IF k = 0 THEN m ELSE Block_setup_dofs(BlocksSetupDofs(m, k - 1), m.blocks[k])

\* setup_dofs of every element of blocks, then of every node
Model_setup_dofs_BlocksFirst(m) == NodesSetupDofs(BlocksSetupDofs(m, Len(m.blocks)), Len(m.nodes))

\* Model::finalize: setup_dofs of every node, then of every element of
\* blocks
Model_setup_dofs(m) == BlocksSetupDofs(NodesSetupDofs(m, Len(m.nodes)), Len(m.blocks))

NewSparseSystem == [F |-> {}, E |-> {}, dE |-> {}, dF |-> {}, dC |-> {}, C |-> {}]

\* M.coeffRef(row, col) = value
coeffRef(M, row, col, value) ==
    {e \in M : e[1] # row \/ e[2] # col} \cup {<<row, col, value>>}

\* Junction::update_constant, pressure conservation: iterations 0..k-1
RECURSIVE JunctionPressure(_, _, _, _)
JunctionPressure(F, eqn, var, k) ==
    IF k = 0 THEN F
    ELSE coeffRef(coeffRef(JunctionPressure(F, eqn, var, k - 1),
                           eqn[k], var[1], One),
                  eqn[k], var[2 * (k - 1) + 3], RNeg(One))

\* Junction::update_constant, mass conservation: i = first, first + 2, ...
\* below last
RECURSIVE JunctionMass(_, _, _, _, _, _)
JunctionMass(F, row, var, first, last, value) ==
    IF first >= last THEN F
    ELSE JunctionMass(coeffRef(F, row, var[first + 1], value), row, var,
                      first + 2, last, value)

\* Junction::update_constant whose mass conservation adds the outflows
Junction_update_constant_OutflowPlus(sys, m, b) ==
    LET eqn == m.global_eqn_ids[b + 1]
        var == m.global_var_ids[b + 1]
        num_inlets == Len(m.inlet_nodes[b + 1])
        num_outlets == Len(m.outlet_nodes[b + 1])
        last == eqn[num_inlets + num_outlets]
        pressure == JunctionPressure(sys.F, eqn, var, num_inlets + num_outlets - 1)
        inflow == JunctionMass(pressure, last, var, 1, num_inlets * 2, One)
    IN  [sys EXCEPT !.F = JunctionMass(inflow, last, var, num_inlets * 2 + 1,
                                       (num_inlets + num_outlets) * 2, One)]

\* void Junction::update_constant(system, parameters)
Junction_update_constant(sys, m, b) ==
    LET eqn == m.global_eqn_ids[b + 1]
        var == m.global_var_ids[b + 1]
        num_inlets == Len(m.inlet_nodes[b + 1])
        num_outlets == Len(m.outlet_nodes[b + 1])
        last == eqn[num_inlets + num_outlets]
        pressure == JunctionPressure(sys.F, eqn, var, num_inlets + num_outlets - 1)
        inflow == JunctionMass(pressure, last, var, 1, num_inlets * 2, One)
    IN  [sys EXCEPT !.F = JunctionMass(inflow, last, var, num_inlets * 2 + 1,
                                       (num_inlets + num_outlets) * 2,
                                       RNeg(One))]

\* Junction::update_constant(System &system), second and third loop:
\* system.F(row, global_var_ids[i]) = value for i = first .. last - 1
RECURSIVE DenseJunctionMass(_, _, _, _, _, _)
DenseJunctionMass(F, row, var, first, last, value) ==
    IF first >= last THEN F
    ELSE DenseJunctionMass(coeffRef(F, row, var[first + 1], value), row, var,
                           first + 1, last, value)

\* void Junction::update_constant(System &system) of the dense System; the
\* entries written into F are kept as (row, column, value)
Junction_update_constant_dense(sys, m, b) ==
    LET eqn == m.global_eqn_ids[b + 1]
        var == m.global_var_ids[b + 1]
        num_inlets == Len(m.inlet_nodes[b + 1])
        num_outlets == Len(m.outlet_nodes[b + 1])
        last == eqn[num_inlets + num_outlets]
        pressure == JunctionPressure(sys.F, eqn, var, num_inlets + num_outlets - 1)
        inflow == DenseJunctionMass(pressure, last, var, 0, num_inlets, One)
    IN  [sys EXCEPT !.F = DenseJunctionMass(inflow, last, var, num_inlets,
                                            num_inlets + num_outlets,
                                            RNeg(One))]

\* update_constant(System &) of the junctions among the first k blocks
RECURSIVE JunctionsUpdateConstantDense(_, _, _)
JunctionsUpdateConstantDense(sys, m, k) ==
    IF k = 0 THEN sys
    ELSE IF m.block_types[m.blocks[k] + 1] = "JUNCTION"
         THEN Junction_update_constant_dense(
                  JunctionsUpdateConstantDense(sys, m, k - 1), m, m.blocks[k])
         ELSE JunctionsUpdateConstantDense(sys, m, k - 1)

\* void FlowReferenceBC::update_constant(SparseSystem &system)
FlowReferenceBC_update_constant(sys, m, b) ==
    [sys EXCEPT !.F = coeffRef(@, m.global_eqn_ids[b + 1][1],
                               m.global_var_ids[b + 1][2], One)]

\* void RCRBlockWithDistalPressure::update_constant(system)
RCRBlock_update_constant(sys, m, b) ==
    LET eqn == m.global_eqn_ids[b + 1]
        var == m.global_var_ids[b + 1]
    IN  [sys EXCEPT !.F = coeffRef(coeffRef(coeffRef(@, eqn[1], var[1], One),
                                            eqn[1], var[3], RNeg(One)),
                                   eqn[2], var[3], RNeg(One))]

Block_update_constant(sys, m, b) ==
    CASE m.block_types[b + 1] = "FLOWBC" -> FlowReferenceBC_update_constant(sys, m, b)
      [] m.block_types[b + 1] = "JUNCTION" -> Junction_update_constant(sys, m, b)
      [] m.block_types[b + 1] = "WINDKESSELBC" -> RCRBlock_update_constant(sys, m, b)

\* update_constant of block b indexes global_var_ids or global_eqn_ids
\* past the end, which they are for a block that has too few nodes
Block_reads_past_end(m, b) ==
    CASE m.block_types[b + 1] = "FLOWBC" -> Len(m.global_var_ids[b + 1]) < 2
      [] m.block_types[b + 1] = "JUNCTION" -> Len(m.global_var_ids[b + 1]) < 2
      [] m.block_types[b + 1] = "WINDKESSELBC" -> Len(m.global_var_ids[b + 1]) < 3

RECURSIVE BlocksUpdateConstant(_, _, _)
BlocksUpdateConstant(sys, m, k) ==
    IF k = 0 THEN sys
    ELSE Block_update_constant(BlocksUpdateConstant(sys, m, k - 1), m, m.blocks[k])

\* void Model::update_constant(system)
Model_update_constant(sys, m) == BlocksUpdateConstant(sys, m, Len(m.blocks))

\* void FlowReferenceBC::update_time(SparseSystem &system, time); an entry
\* of the vector C has column 0
FlowReferenceBC_update_time_sparse(sys, m, b) ==
    [sys EXCEPT !.C = coeffRef(@, m.global_eqn_ids[b + 1][1], 0,
                               RNeg(m.parameter_values[m.global_param_ids[b + 1][1] + 1]))]

\* void RCRBlockWithDistalPressure::update_time(system, time), with the
\* parameters Rp, C, Rd, Pd
RCRBlock_update_time(sys, m, b) ==
    LET eqn == m.global_eqn_ids[b + 1]
        var == m.global_var_ids[b + 1]
        param(k) == m.parameter_values[m.global_param_ids[b + 1][k] + 1]
    IN  [sys EXCEPT
            !.E = coeffRef(@, eqn[2], var[3], RNeg(RMul(param(3), param(2)))),
            !.F = coeffRef(coeffRef(@, eqn[1], var[2], RNeg(param(1))),
                           eqn[2], var[2], param(3)),
            !.C = coeffRef(@, eqn[2], 0, param(4))]

Block_update_time_sparse(sys, m, b) ==
    CASE m.block_types[b + 1] = "FLOWBC" -> FlowReferenceBC_update_time_sparse(sys, m, b)
      [] m.block_types[b + 1] = "JUNCTION" -> sys
      [] m.block_types[b + 1] = "WINDKESSELBC" -> RCRBlock_update_time(sys, m, b)

RECURSIVE BlocksUpdateTimeSparse(_, _, _)
BlocksUpdateTimeSparse(sys, m, k) ==
    IF k = 0 THEN sys
    ELSE Block_update_time_sparse(BlocksUpdateTimeSparse(sys, m, k - 1), m,
                                  m.blocks[k])

\* num_triplets of a junction that leaves out the mass conservation row
Block_get_num_triplets_NoMassRow(m, b) ==
    LET n == Len(m.inlet_nodes[b + 1]) + Len(m.outlet_nodes[b + 1])
    IN  CASE m.block_types[b + 1] = "FLOWBC" -> [F |-> 1, E |-> 0, D |-> 0]
          [] m.block_types[b + 1] = "JUNCTION" ->
                 [F |-> (n - 1) * 2, E |-> 0, D |-> 0]
          [] m.block_types[b + 1] = "WINDKESSELBC" -> [F |-> 5, E |-> 1, D |-> 0]

\* the num_triplets of block b: FlowReferenceBC declares it, Junction sets
\* F in setup_dofs; for the RCR block, whose declaration is not part of the
\* sources, it is the number of entries its update functions write
Block_get_num_triplets(m, b) ==
    LET n == Len(m.inlet_nodes[b + 1]) + Len(m.outlet_nodes[b + 1])
    IN  CASE m.block_types[b + 1] = "FLOWBC" -> [F |-> 1, E |-> 0, D |-> 0]
          [] m.block_types[b + 1] = "JUNCTION" ->
                 [F |-> (n - 1) * 2 + n, E |-> 0, D |-> 0]
          [] m.block_types[b + 1] = "WINDKESSELBC" -> [F |-> 5, E |-> 1, D |-> 0]

\* the sum of the num_triplets of the first k elements of block_list
RECURSIVE SumTriplets(_, _, _)
SumTriplets(m, block_list, k) ==
    IF k = 0 THEN [F |-> 0, E |-> 0, D |-> 0]
    ELSE LET prev == SumTriplets(m, block_list, k - 1)
             elem == Block_get_num_triplets(m, block_list[k])
         IN  [F |-> prev.F + elem.F, E |-> prev.E + elem.E, D |-> prev.D + elem.D]

\* get_num_triplets that also visits hidden_blocks
Model_get_num_triplets_WithHidden(m) ==
    SumTriplets(m, m.blocks \o m.hidden_blocks,
                Len(m.blocks) + Len(m.hidden_blocks))

\* std::map<std::string, int> Model::get_num_triplets()
Model_get_num_triplets(m) == SumTriplets(m, m.blocks, Len(m.blocks))

LoadBlockTypes == {"FLOWBC", "JUNCTION", "WINDKESSELBC"}

\* the parameters of the blocks of a loaded model
LoadConfig(block_type) ==
    CASE block_type = "FLOWBC" -> <<Array(<<Zero, One>>, <<One, R(3)>>)>>
      [] block_type = "WINDKESSELBC" ->
             <<Scalar(One), Scalar(One), Scalar(One), Scalar(Zero)>>
      [] OTHER -> <<>>

Load == [pc |-> "load"]

\* generate_block of one vessel, junction or boundary condition
LoadAddBlock ==
    /\ run.pc = "load"
    /\ ~model.finalized
    /\ ~model.crashed
    /\ model.nodes = <<>>
    /\ Len(model.block_types) < MaxLoadBlocks
    /\ \E block_type \in LoadBlockTypes, internal \in BOOLEAN :
          model' = generate_block(model, LoadConfig(block_type), block_type,
                                  BlockNames[Len(model.block_types) + 1],
                                  internal)
    /\ UNCHANGED <<system, kind, integ, stp, calls, resids, run, saved>>

\* one connection of load_simulation_model: get_block of the two names,
\* then add_node; a block pointer read past the end of blocks is not a
\* block.  calls lists the connections made.
LoadAddNode ==
    /\ run.pc = "load"
    /\ ~model.finalized
    /\ ~model.crashed
    /\ Len(model.nodes) < MaxNodes
    /\ \E a, b \in 1..Len(model.block_names) :
          /\ a # b
          /\ LET ele1 == Model_get_block_by_name(model, model.block_names[a])
                 ele2 == Model_get_block_by_name(model, model.block_names[b])
             IN  model' = IF ele1 < 0 \/ ele2 < 0
                          THEN [model EXCEPT !.crashed = TRUE]
                          ELSE Model_add_node(model, <<ele1>>, <<ele2>>)
          /\ calls' = Append(calls, <<model.block_names[a], model.block_names[b]>>)
    /\ UNCHANGED <<system, kind, integ, stp, resids, run, saved>>

\* model.finalize() at the end of load_simulation_model
LoadFinalize ==
    /\ run.pc = "load"
    /\ ~model.finalized
    /\ ~model.crashed
    /\ Len(model.block_types) >= 1
    /\ model' = Model_finalize(Model_setup_dofs(model))
    /\ UNCHANGED <<system, kind, integ, stp, calls, resids, run, saved>>

\* model.update_constant(system) on the finalized model
LoadUpdateConstant ==
    /\ run.pc = "load"
    /\ model.finalized
    /\ ~model.crashed
    /\ IF \E k \in 1..Len(model.blocks) : Block_reads_past_end(model, model.blocks[k])
       THEN /\ model' = [model EXCEPT !.crashed = TRUE]
            /\ UNCHANGED <<system, run>>
       ELSE /\ system' = Model_update_constant(system, model)
            /\ run' = [pc |-> "updated"]
            /\ UNCHANGED model
    /\ UNCHANGED <<kind, integ, stp, calls, resids, saved>>

\* the junctions' update_constant(System &) on a dense System of the same
\* finalized model
LoadUpdateConstantDense ==
    /\ run.pc = "load"
    /\ model.finalized
    /\ ~model.crashed
    /\ \A k \in 1..Len(model.blocks) : ~Block_reads_past_end(model, model.blocks[k])
    /\ system' = JunctionsUpdateConstantDense(system, model, Len(model.blocks))
    /\ kind' = "dense"
    /\ run' = [pc |-> "dense_updated"]
    /\ UNCHANGED <<integ, stp, calls, resids, model, saved>>

MaxValueUpdates == 1
LoadTimes == {Zero, Half}

\* model.update_parameter_value(param_id, param_value) between the calls of
\* update_constant and update_time; resids lists these calls
LoadUpdateParameterValue ==
    /\ run.pc = "updated"
    /\ Len(resids) < MaxValueUpdates
    /\ \E param_id \in 0..(Len(model.parameters) - 1), v \in UpdateValues :
          /\ model' = Model_update_parameter_value(model, param_id, v)
          /\ resids' = Append(resids, <<param_id, v>>)
    /\ UNCHANGED <<system, kind, integ, stp, calls, run, saved>>

\* model.update_time(system, time) after update_constant
LoadUpdateTime ==
    /\ run.pc = "updated"
    /\ \E time \in LoadTimes :
          /\ model' = Model_update_time_model(model, time)
          /\ system' = BlocksUpdateTimeSparse(system, model', Len(model.blocks))
    /\ run' = [pc |-> "timed"]
    /\ UNCHANGED <<kind, integ, stp, calls, resids, saved>>

LoadInit ==
    /\ system = NewSparseSystem
    /\ kind = "sparse"
    /\ integ = Idle
    /\ stp = Idle
    /\ calls = <<>>
    /\ resids = <<>>
    /\ model = NewModel
    /\ run = Load
    /\ saved = NotSaved

LoadNext ==
    \/ LoadAddBlock
    \/ LoadAddNode
    \/ LoadFinalize
    \/ LoadUpdateConstant
    \/ LoadUpdateConstantDense
    \/ LoadUpdateParameterValue
    \/ LoadUpdateTime

LoadSpec == LoadInit /\ [][LoadNext]_vars

(***************************************************************************)
(* run(): one action per statement of its body.  A State is named by the   *)
(* initial condition it descends from and the steps taken since:           *)
(* Integrator::step, whose body is the subject of Spec, is one action      *)
(* here, which returns the next State or throws.                           *)
(***************************************************************************)
SteadySteps == 31

\* load_model: a flow boundary condition, a Windkessel and, if the
\* configuration has one, the ClosedLoopHeartAndPulmonary block with its
\* two junctions; then finalize
load_model(config) ==
    LET m1 == generate_block(NewModel, config.flow, "FLOWBC", "INFLOW", FALSE)
        m2 == generate_block(m1, config.windkessel, "WINDKESSELBC", "OUT", FALSE)
        m3 == [m2 EXCEPT !.cardiac_cycle_period =
                             IF RLt(Zero, @) THEN @ ELSE One]
        m4 == generate_block(m3, config.heart, "CLOSEDLOOPHEARTPULMONARY",
                             "CLH", FALSE)
    IN  Model_finalize(IF config.closed_loop THEN heart_junctions(m4) ELSE m2)

\* load_initial_condition: zero, or what the configuration gives
load_initial_condition(config) ==
    [y |-> IF config.initial_condition THEN config.initial_y ELSE Zero,
     ydot |-> IF config.initial_condition_d THEN config.initial_ydot ELSE Zero,
     steps |-> <<>>]

\* the State a successful Integrator::step(state, time) returns
StepResult(state, time_step_size, time) ==
    [state EXCEPT !.steps = Append(@, <<time_step_size, time>>)]

\* T time_step_size_steady = model->cardiac_cycle_period / 10.0, with 31
\* in the place of 10
time_step_size_steady_Over31(m) == RDiv(m.cardiac_cycle_period, R(31))

\* T time_step_size_steady = model->cardiac_cycle_period / 10.0
time_step_size_steady(m) == RDiv(m.cardiac_cycle_period, R(10))

LogEntry(call, time_step_size, time, state) ==
    [call |-> call, time_step_size |-> time_step_size, time |-> time,
     state |-> state]

\* if (sim_steady_initial && model->get_block("CLH") != nullptr)
\*   std::runtime_error(...);   constructed and dropped, not thrown
RunCheckCLH ==
    /\ run.pc = "check_clh"
    /\ run' = [run EXCEPT
                  !.pc = "cycle_period",
                  !.error_dropped = /\ run.sim_steady_initial
                                    /\ Model_get_block_by_name(model, "CLH") # -1]
    /\ UNCHANGED <<system, kind, integ, stp, calls, resids, model, saved>>

\* the default cardiac cycle period and the time step size
RunTimeStepSize ==
    /\ run.pc = "cycle_period"
    /\ model' = [model EXCEPT !.cardiac_cycle_period =
                                  IF RLt(@, Zero) THEN One ELSE @]
    /\ run' = [run EXCEPT
                  !.pc = IF run.sim_steady_initial THEN "to_steady" ELSE "main_init",
                  !.sim_time_step_size =
                      IF ~run.sim_coupled
                      THEN RDiv(model'.cardiac_cycle_period,
                                R(run.sim_pts_per_cycle - 1))
                      ELSE RDiv(run.sim_external_step_size,
                                R(run.sim_num_time_steps - 1))]
    /\ UNCHANGED <<system, kind, integ, stp, calls, resids, saved>>

\* model->to_steady(); Integrator integrator_steady(...); i = 0
RunToSteady ==
    /\ run.pc = "to_steady"
    /\ model' \in Model_to_steady(model)
    /\ integ' = NewIntegrator(time_step_size_steady(model), <<1, 10>>,
                              run.sim_abs_tol, run.sim_nliter)
    /\ run' = [run EXCEPT
                  !.pc = IF model'.crashed THEN "aborted" ELSE "steady_loop",
                  !.time_step_size_steady = time_step_size_steady(model),
                  !.i = 0,
                  !.log = Append(@, LogEntry("to_steady", Zero, Zero, run.state))]
    /\ UNCHANGED <<system, kind, stp, calls, resids, saved>>

\* i < 31: state = integrator_steady.step(state, time_step_size_steady * T(i))
RunSteadyStep ==
    /\ run.pc = "steady_loop"
    /\ run.i < SteadySteps
    /\ LET time == RMul(run.time_step_size_steady, R(run.i))
       IN  run' = [run EXCEPT
                      !.state = StepResult(@, integ.time_step_size, time),
                      !.i = @ + 1,
                      !.log = Append(@, LogEntry("steady_step", integ.time_step_size,
                                                 time, run.state))]
    /\ UNCHANGED <<system, kind, integ, stp, calls, resids, model, saved>>

\* i < 31: the step throws and run() is left
RunSteadyStepThrows ==
    /\ run.pc = "steady_loop"
    /\ run.i < SteadySteps
    /\ LET time == RMul(run.time_step_size_steady, R(run.i))
       IN  run' = [run EXCEPT
                      !.pc = "failed",
                      !.log = Append(@, LogEntry("steady_step", integ.time_step_size,
                                                 time, run.state))]
    /\ UNCHANGED <<system, kind, integ, stp, calls, resids, model, saved>>

\* i = 31: model->to_unsteady()
RunToUnsteady ==
    /\ run.pc = "steady_loop"
    /\ run.i >= SteadySteps
    /\ model' = Model_to_unsteady(model)
    /\ run' = [run EXCEPT
                  !.pc = "main_init",
                  !.log = Append(@, LogEntry("to_unsteady", Zero, Zero, run.state))]
    /\ UNCHANGED <<system, kind, integ, stp, calls, resids, saved>>

\* the main loop entered with i = 0
RunMainInit_FromZero ==
    /\ run.pc = "main_init"
    /\ integ' = NewIntegrator(run.sim_time_step_size, <<1, 10>>,
                              run.sim_abs_tol, run.sim_nliter)
    /\ run' = [run EXCEPT
                  !.pc = "main_loop",
                  !.time = Zero,
                  !.interval_counter = 0,
                  !.start_last_cycle = run.sim_num_time_steps - run.sim_pts_per_cycle,
                  !.times = <<Zero>>,
                  !.states = <<run.state>>,
                  !.i = 0]
    /\ UNCHANGED <<system, kind, stp, calls, resids, model, saved>>

\* Integrator integrator(...); states, times; time = 0; the first output
RunMainInit ==
    /\ run.pc = "main_init"
    /\ integ' = NewIntegrator(run.sim_time_step_size, <<1, 10>>,
                              run.sim_abs_tol, run.sim_nliter)
    /\ LET start_last_cycle == run.sim_num_time_steps - run.sim_pts_per_cycle
           first == ~run.output_last_cycle_only \/ 0 >= start_last_cycle
       IN  run' = [run EXCEPT
                      !.pc = "main_loop",
                      !.time = Zero,
                      !.interval_counter = 0,
                      !.start_last_cycle = start_last_cycle,
                      !.times = IF first THEN <<Zero>> ELSE <<>>,
                      !.states = IF first THEN <<run.state>> ELSE <<>>,
                      !.i = 1]
    /\ UNCHANGED <<system, kind, stp, calls, resids, model, saved>>

\* i < sim_num_time_steps: state = integrator.step(state, time); the output
RunMainStep ==
    /\ run.pc = "main_loop"
    /\ run.i < run.sim_num_time_steps
    /\ LET state == StepResult(run.state, integ.time_step_size, run.time)
           interval_counter == run.interval_counter + 1
           time == RMul(run.sim_time_step_size, R(run.i))
           due == \/ interval_counter = run.output_interval
                  \/ (run.output_last_cycle_only /\ run.i = run.start_last_cycle)
           push == due /\ (~run.output_last_cycle_only
                           \/ run.i >= run.start_last_cycle)
       IN  run' = [run EXCEPT
                      !.state = state,
                      !.time = time,
                      !.interval_counter = IF due THEN 0 ELSE interval_counter,
                      !.times = IF push THEN Append(@, time) ELSE @,
                      !.states = IF push THEN Append(@, state) ELSE @,
                      !.i = @ + 1,
                      !.log = Append(@, LogEntry("main_step", integ.time_step_size,
                                                 run.time, run.state))]
    /\ UNCHANGED <<system, kind, integ, stp, calls, resids, model, saved>>

\* i < sim_num_time_steps: the step throws and run() is left
RunMainStepThrows ==
    /\ run.pc = "main_loop"
    /\ run.i < run.sim_num_time_steps
    /\ run' = [run EXCEPT
                  !.pc = "failed",
                  !.log = Append(@, LogEntry("main_step", integ.time_step_size,
                                             run.time, run.state))]
    /\ UNCHANGED <<system, kind, integ, stp, calls, resids, model, saved>>

\* the end of run() with the times left as they were recorded
RunFinish_NoShift ==
    /\ run.pc = "main_loop"
    /\ run.i >= run.sim_num_time_steps
    /\ run' = [run EXCEPT !.pc = "done"]
    /\ UNCHANGED <<system, kind, integ, stp, calls, resids, model, saved>>

\* i = sim_num_time_steps: make times start from 0; times[0] of an empty
\* vector is read past its end
RunFinish ==
    /\ run.pc = "main_loop"
    /\ run.i >= run.sim_num_time_steps
    /\ run' = [run EXCEPT
                  !.pc = IF run.output_last_cycle_only /\ run.times = <<>>
                         THEN "aborted" ELSE "done",
                  !.times = IF run.output_last_cycle_only /\ run.times # <<>>
                            THEN [k \in 1..Len(run.times) |->
                                     RSub(run.times[k], run.times[1])]
                            ELSE @]
    /\ UNCHANGED <<system, kind, integ, stp, calls, resids, model, saved>>

\* load_simulation_params with num_time_steps = pts_per_cycle * num_cycles
load_simulation_params_NoOverlap(sim_config) ==
    IF ~sim_config.coupled_simulation
    THEN [sim_coupled |-> FALSE,
          sim_num_cycles |-> sim_config.number_of_cardiac_cycles,
          sim_pts_per_cycle |-> sim_config.number_of_time_pts_per_cardiac_cycle,
          sim_num_time_steps |->
              sim_config.number_of_time_pts_per_cardiac_cycle
                  * sim_config.number_of_cardiac_cycles,
          sim_external_step_size |-> Zero]
    ELSE [sim_coupled |-> TRUE,
          sim_num_cycles |-> 1,
          sim_pts_per_cycle |-> sim_config.number_of_time_pts,
          sim_num_time_steps |-> sim_config.number_of_time_pts,
          sim_external_step_size |-> sim_config.external_step_size]

\* SimulationParameters load_simulation_params(config): the time stepping
load_simulation_params(sim_config) ==
    IF ~sim_config.coupled_simulation
    THEN [sim_coupled |-> FALSE,
          sim_num_cycles |-> sim_config.number_of_cardiac_cycles,
          sim_pts_per_cycle |-> sim_config.number_of_time_pts_per_cardiac_cycle,
          sim_num_time_steps |->
              (sim_config.number_of_time_pts_per_cardiac_cycle - 1)
                  * sim_config.number_of_cardiac_cycles + 1,
          sim_external_step_size |-> Zero]
    ELSE [sim_coupled |-> TRUE,
          sim_num_cycles |-> 1,
          sim_pts_per_cycle |-> sim_config.number_of_time_pts,
          sim_num_time_steps |-> sim_config.number_of_time_pts,
          sim_external_step_size |-> sim_config.external_step_size]

\* the time stepping keys of simulation_parameters: a simulation of whole
\* cardiac cycles, or a coupled one
TimeStepping ==
    [coupled_simulation : {FALSE},
     number_of_cardiac_cycles : {1, 2},
     number_of_time_pts_per_cardiac_cycle : {2, 3},
     number_of_time_pts : {0}, external_step_size : {Zero}]
    \cup
    [coupled_simulation : {TRUE},
     number_of_cardiac_cycles : {0},
     number_of_time_pts_per_cardiac_cycle : {0},
     number_of_time_pts : {2, 4}, external_step_size : {<<1, 10>>}]

\* the configurations run() is called with
RunConfigs ==
    [flow : BlockConfigs("FLOWBC"),
     windkessel : BlockConfigs("WINDKESSELBC"),
     heart : BlockConfigs("CLOSEDLOOPHEARTPULMONARY"),
     closed_loop : BOOLEAN,
     initial_condition : BOOLEAN, initial_y : {One},
     initial_condition_d : BOOLEAN, initial_ydot : {One},
     steady_initial : BOOLEAN,
     simulation_parameters : TimeStepping,
     output_interval : {1, 2},
     output_last_cycle_only : BOOLEAN]

\* simparams = load_simulation_params(handler); model = load_model(handler);
\* state = load_initial_condition(handler, model)
RunInit ==
    /\ \E config \in RunConfigs :
          /\ model = load_model(config)
          /\ run = [pc |-> "check_clh",
                    config |-> config,
                    sim_steady_initial |-> config.steady_initial,
                    sim_coupled |->
                        load_simulation_params(config.simulation_parameters).sim_coupled,
                    sim_num_cycles |->
                        load_simulation_params(config.simulation_parameters).sim_num_cycles,
                    sim_pts_per_cycle |->
                        load_simulation_params(config.simulation_parameters).sim_pts_per_cycle,
                    sim_num_time_steps |->
                        load_simulation_params(config.simulation_parameters).sim_num_time_steps,
                    sim_external_step_size |->
                        load_simulation_params(config.simulation_parameters).sim_external_step_size,
                    sim_abs_tol |-> <<1, 100>>,
                    sim_nliter |-> MaxIter,
                    sim_time_step_size |-> Zero,
                    output_interval |-> config.output_interval,
                    output_last_cycle_only |-> config.output_last_cycle_only,
                    state |-> load_initial_condition(config),
                    time_step_size_steady |-> Zero,
                    i |-> 0, time |-> Zero, interval_counter |-> 0,
                    start_last_cycle |-> 0,
                    times |-> <<>>, states |-> <<>>, log |-> <<>>,
                    error_dropped |-> FALSE]
    /\ saved = NotSaved
    /\ system = NewSystem
    /\ kind = "sparse"
    /\ integ = Idle
    /\ stp = Idle
    /\ calls = <<>>
    /\ resids = <<>>

RunNext ==
    \/ RunCheckCLH
    \/ RunTimeStepSize
    \/ RunToSteady
    \/ RunSteadyStep
    \/ RunSteadyStepThrows
    \/ RunToUnsteady
    \/ RunMainInit
    \/ RunMainStep
    \/ RunMainStepThrows
    \/ RunFinish

RunSpec == RunInit /\ [][RunNext]_vars

(***************************************************************************)
(* load_initial_condition (SimulationParameters.cpp) on the variable names *)
(* of a dofhandler.  Names and keys are sequences of characters; a json    *)
(* object is a function from its keys to values.                           *)
(***************************************************************************)
PressurePrefix == <<"p", "r", "e", "s", "s", "u", "r", "e", ":">>
PcPrefix == <<"P", "_", "c", ":">>
FlowPrefix == <<"f", "l", "o", "w", ":">>
PressureAll == <<"p", "r", "e", "s", "s", "u", "r", "e", "_", "a", "l", "l">>
FlowAll == <<"f", "l", "o", "w", "_", "a", "l", "l">>

\* model.dofhandler.variables: a node's pressure and flow, the internal
\* variables P_c and V_c of a block, and a name that is "flow" and no more
VariableNames ==
    <<PressurePrefix \o <<"A">>, FlowPrefix \o <<"A">>, PcPrefix \o <<"h">>,
      <<"V", "_", "c", ":", "h">>, <<"f", "l", "o", "w">>>>

\* var_name.substr(0, n)
substr(var_name, n) ==
    SubSeq(var_name, 1, IF Len(var_name) < n THEN Len(var_name) ELSE n)

\* json::contains(key) and json::value(key, default_val)
json_contains(object, key) == key \in DOMAIN object
json_value(object, key, default_val) ==
    IF key \in DOMAIN object THEN object[key] ELSE default_val

\* default_val with the P_c: variables left out of pressure_all
default_val_PressureOnly(initial_condition, var_name) ==
    IF json_contains(initial_condition, var_name) THEN Zero
    ELSE IF /\ json_contains(initial_condition, PressureAll)
            /\ substr(var_name, 9) = PressurePrefix
         THEN initial_condition[PressureAll]
    ELSE IF /\ json_contains(initial_condition, FlowAll)
            /\ substr(var_name, 5) = FlowPrefix
         THEN initial_condition[FlowAll]
    ELSE Zero

\* default_val of the loop body of load_initial_condition
default_val(initial_condition, var_name) ==
    IF json_contains(initial_condition, var_name) THEN Zero
    ELSE IF /\ json_contains(initial_condition, PressureAll)
            /\ \/ substr(var_name, 9) = PressurePrefix
               \/ substr(var_name, 4) = PcPrefix
         THEN initial_condition[PressureAll]
    ELSE IF /\ json_contains(initial_condition, FlowAll)
            /\ substr(var_name, 5) = FlowPrefix
         THEN initial_condition[FlowAll]
    ELSE Zero

\* State load_initial_condition(config, model)
load_initial_state(config, variables) ==
    [y |-> [i \in 1..Len(variables) |->
              IF ~config.contains_initial_condition THEN Zero
              ELSE json_value(config.initial_condition, variables[i],
                              default_val(config.initial_condition, variables[i]))],
     ydot |-> [i \in 1..Len(variables) |->
                 IF ~config.contains_initial_condition_d THEN Zero
                 ELSE json_value(config.initial_condition_d, variables[i], Zero)]]

\* the json objects with the keys of a set, each key with its own value
KeyValue(key) ==
    IF key = PressureAll THEN R(5)
    ELSE IF key = FlowAll THEN R(7)
    ELSE IF key = VariableNames[1] THEN R(2)
    ELSE IF key = VariableNames[2] THEN R(3)
    ELSE IF key = VariableNames[3] THEN R(4)
    ELSE R(6)

JsonObjects(keys) ==
    {[key \in ks |-> KeyValue(key)] : ks \in SUBSET keys}

\* configurations with and without the keys initial_condition and
\* initial_condition_d
InitialConditionConfigs ==
    {[contains_initial_condition |-> ic # <<>>,
      initial_condition |-> IF ic = <<>> THEN <<>> ELSE ic[1],
      contains_initial_condition_d |-> icd # <<>>,
      initial_condition_d |-> IF icd = <<>> THEN <<>> ELSE icd[1]] :
        ic \in {<<>>} \cup
                {<<o>> : o \in JsonObjects({PressureAll, FlowAll,
                                            VariableNames[1], VariableNames[2],
                                            VariableNames[3], VariableNames[4]})},
        icd \in {<<>>} \cup
                 {<<o>> : o \in JsonObjects({VariableNames[1], VariableNames[4]})}}

\* state = load_initial_condition(config, model)
LoadInitialCondition ==
    /\ run.pc = "initial_condition"
    /\ run' = [run EXCEPT
                  !.pc = "loaded",
                  !.state = load_initial_state(run.config, run.variables)]
    /\ UNCHANGED <<system, kind, integ, stp, calls, resids, model, saved>>

InitialConditionInit ==
    /\ \E config \in InitialConditionConfigs :
          run = [pc |-> "initial_condition", config |-> config,
                 variables |-> VariableNames,
                 state |-> [y |-> <<>>, ydot |-> <<>>]]
    /\ model = NewModel
    /\ saved = NotSaved
    /\ system = NewSystem
    /\ kind = "sparse"
    /\ integ = Idle
    /\ stp = Idle
    /\ calls = <<>>
    /\ resids = <<>>

InitialConditionNext == LoadInitialCondition

InitialConditionSpec == InitialConditionInit /\ [][InitialConditionNext]_vars

(***************************************************************************)
(* Properties of Integrator::step and of the systems.                      *)
(***************************************************************************)
StepFinished == stp.pc \in {"done", "failed", "aborted"}

\* every one of max_iter residual evaluations found max|residual| >= atol
AllEvaluationsFail ==
    /\ Len(resids) = integ.max_iter
    /\ \A k \in 1..Len(resids) : ~RLt(resids[k], integ.atol)

\* C1: for max_iter >= 1 a finished step has failed with the non-convergence
\* error exactly if max|residual| >= atol held at each of the max_iter
\* residual evaluations; a residual below atol is the last one evaluated,
\* nothing is solved after it, and a step that returns a state has stopped
\* at the first evaluation below atol.
C1_NonConvergence ==
    integ.max_iter >= 1 =>
        /\ StepFinished => ((stp.pc = "failed") <=> AllEvaluationsFail)
        /\ \A k \in 1..(Len(resids) - 1) : ~RLt(resids[k], integ.atol)
        /\ (Len(resids) >= 1 /\ RLt(resids[Len(resids)], integ.atol))
               => stp.pc \in {"check", "corrector", "done"}
        /\ stp.pc = "done" =>
               /\ Len(resids) >= 1
               /\ RLt(resids[Len(resids)], integ.atol)
               /\ Len(resids) = stp.i + 1

\* a step that failed at its third residual evaluation
C1_Witness ==
    /\ stp.pc = "failed"
    /\ integ.max_iter = 3
    /\ Len(resids) = 3

NewtonCalls ==
    <<"update_solution", "update_residual", "check",
      "update_jacobian", "solve", "increment">>

\* C2: the first call of a step is update_time, at time + alpha_f * dt, and
\* it is the only update_time; after it the calls of iteration k are
\* update_solution, update_residual, the tolerance check, update_jacobian,
\* solve, increment, in this order, and iteration k + 1 follows the
\* increment of iteration k; a finished step has called update_time.
C2_CallOrder ==
    /\ \A j \in 1..Len(calls) :
          IF j = 1
          THEN calls[j] = <<"update_time",
                            RAdd(stp.time, RMul(integ.alpha_f, integ.time_step_size))>>
          ELSE calls[j] = <<NewtonCalls[((j - 2) % 6) + 1], (j - 2) \div 6>>
    /\ StepFinished => Len(calls) >= 1

\* a step in its second Newton iteration
C2_Witness ==
    /\ Len(calls) >= 8
    /\ calls[8] = <<"update_solution", 1>>

\* C3: the state a step returns is y_n + (y_af - y_n) / alpha_f and
\* ydot_n + (ydot_am - ydot_n) / alpha_m.
C3_CorrectorDivides ==
    stp.pc = "done" =>
        /\ stp.new_state.y =
              [i \in Dofs |-> RAdd(stp.old_state.y[i],
                                   RDiv(RSub(integ.y_af[i], stp.old_state.y[i]),
                                        integ.alpha_f))]
        /\ stp.new_state.ydot =
              [i \in Dofs |-> RAdd(stp.old_state.ydot[i],
                                   RDiv(RSub(integ.ydot_am[i], stp.old_state.ydot[i]),
                                        integ.alpha_m))]

\* after the predictor and the initiator: y0 = y_n + 0.5 * dt * ydot_n,
\* ydot0 = ydot_n * factor / gamma, y_af = y_n + alpha_f * (y0 - y_n) and
\* ydot_am = ydot_n + alpha_m * (ydot0 - ydot_n)
PredictedWith(factor) ==
    /\ stp.new_state.y =
          [i \in Dofs |-> RAdd(stp.state.y[i],
                               RMul(RMul(Half, integ.time_step_size),
                                    stp.state.ydot[i]))]
    /\ stp.new_state.ydot =
          [i \in Dofs |-> RDiv(RMul(stp.state.ydot[i], factor), integ.gamma)]
    /\ integ.y_af =
          [i \in Dofs |-> RAdd(stp.state.y[i],
                               RMul(integ.alpha_f,
                                    RSub(stp.new_state.y[i], stp.state.y[i])))]
    /\ integ.ydot_am =
          [i \in Dofs |-> RAdd(stp.state.ydot[i],
                               RMul(integ.alpha_m,
                                    RSub(stp.new_state.ydot[i], stp.state.ydot[i])))]

C6_UpdateResidual ==
    [][stp.pc = "update_residual" =>
          /\ system'.residual =
                [i \in Dofs |->
                    RNeg(RAdd(RAdd(Dot(system.E[i], integ.ydot_am, NDof),
                                   Dot(system.F[i], integ.y_af, NDof)),
                              system.C[i]))]
          /\ system'.E = system.E
          /\ system'.F = system.F
          /\ system'.C = system.C
          /\ system'.dE = system.dE
          /\ system'.dF = system.dF
          /\ system'.dC = system.dC
          /\ system'.jacobian = system.jacobian
          /\ system'.dy = system.dy]_vars

\* a residual evaluated in the second iteration of a sparse system with
\* nonzero E, C and ydot_am
C6_Witness ==
    /\ stp.pc = "check"
    /\ stp.i = 1
    /\ kind = "sparse"
    /\ system.E # ZeroMat
    /\ system.C # ZeroVec
    /\ integ.ydot_am # ZeroVec
    /\ system.residual # ZeroVec

\* C7 as claimed: rho = 0.1 gives alpha_m = 14/11, alpha_f = 10/11 and
\* gamma = 19/22.
C7_Claimed ==
    integ.rho = <<1, 10>> =>
        /\ integ.alpha_m = <<14, 11>>
        /\ integ.alpha_f = <<10, 11>>
        /\ integ.gamma = <<19, 22>>

\* C7 amended: an Integrator has alpha_m = 0.5 * (3 - rho) / (1 + rho),
\* alpha_f = 1 / (1 + rho) and gamma = 0.5 + alpha_m - alpha_f, which for
\* rho = 0.1 are alpha_m = 29/22 = 1.318181..., alpha_f = 10/11 = 0.909090...
\* and gamma = 10/11 = 0.909090...
C7_Coefficients ==
    /\ RMul(RMul(R(2), integ.alpha_m), RAdd(One, integ.rho)) = RSub(R(3), integ.rho)
    /\ RMul(integ.alpha_f, RAdd(One, integ.rho)) = One
    /\ integ.gamma = RSub(RAdd(Half, integ.alpha_m), integ.alpha_f)
    /\ integ.rho = <<1, 10>> =>
          /\ integ.alpha_m = <<29, 22>>
          /\ integ.alpha_f = <<10, 11>>
          /\ integ.gamma = <<10, 11>>

\* an Integrator constructed with rho = 0.1, in use
C7_Witness ==
    /\ integ.rho = <<1, 10>>
    /\ stp.pc = "done"

(***************************************************************************)
(* Properties of the Model.                                                *)
(***************************************************************************)
\* a model without the cache of capacitances, which nothing but
\* to_unsteady reads
WithoutCache(m) == [m EXCEPT !.param_value_cache = {}]

\* C9: to_steady() immediately followed by to_unsteady() on a finalized
\* model completes and leaves every parameter, every block's steady flag
\* and the rest of the model as it was before to_steady().
C9_RoundTrip ==
    /\ ~model.crashed
    /\ saved.roundtrip => WithoutCache(model) = WithoutCache(saved.model)

(***************************************************************************)
(* Properties of run().                                                    *)
(***************************************************************************)
\* the calls run() has made are to_steady, the 31 steady steps of size
\* cardiac_cycle_period / 10 at the times i * cardiac_cycle_period / 10, the
\* first of them from initial_state and each next one from the state the
\* one before returned, to_unsteady, and then the first step of the main
\* integrator from the state the 31st steady step returned
SteadyInitialOrder(initial_state) ==
    LET log == run.log
        dt == RDiv(model.cardiac_cycle_period, R(10))
    IN  /\ Len(log) >= SteadySteps + 3
        /\ log[1].call = "to_steady"
        /\ \A k \in 0..(SteadySteps - 1) :
              /\ log[k + 2].call = "steady_step"
              /\ log[k + 2].time_step_size = dt
              /\ log[k + 2].time = RMul(R(k), dt)
              /\ log[k + 2].state =
                    IF k = 0 THEN initial_state
                    ELSE StepResult(log[k + 1].state, dt, RMul(R(k - 1), dt))
        /\ log[SteadySteps + 2].call = "to_unsteady"
        /\ log[SteadySteps + 3].call = "main_step"
        /\ log[SteadySteps + 3].state =
              StepResult(log[SteadySteps + 1].state, dt,
                         RMul(R(SteadySteps - 1), dt))

MainStepTaken == \E j \in 1..Len(run.log) : run.log[j].call = "main_step"

ZeroState == [y |-> Zero, ydot |-> Zero, steps |-> <<>>]

C10_RejectsCLH ==
    (run.pc # "none" /\ run.sim_steady_initial
        /\ Model_get_block_by_name(model, "CLH") # -1) =>
        /\ run.pc \in {"check_clh", "failed"}
        /\ \A j \in 1..Len(run.log) :
              run.log[j].call \notin {"to_steady", "steady_step"}

\* C11: a solve against a singular jacobian makes the step fail with an
\* error: no increment of y_af and ydot_am follows it.
C11_SingularFails ==
    stp.pc = "increment" => ~IsSingular(system.jacobian)

\* C12: no statement of Integrator::step modifies the state passed to it,
\* so when the step fails with non-convergence the caller's state, which is
\* the object passed by reference, is the one the last successful step
\* returned.
C12_StateKept ==
    [][stp'.state = stp.state]_vars

\* a step that failed after its Newton iterations had moved y_af away from
\* the y of the state passed
C12_Witness ==
    /\ stp.pc = "failed"
    /\ stp.i >= 1
    /\ integ.y_af # stp.state.y

\* when a step of run() throws, run()'s state and the recorded states and
\* times are left as they were (checked under RunSpec)
C12_RunKeepsRecorded ==
    [][run'.pc = "failed" =>
          /\ run'.state = run.state
          /\ run'.states = run.states
          /\ run'.times = run.times]_vars


\* C13: whatever add_parameter calls were made, every stored periodic
\* parameter that is not constant has the model's cardiac_cycle_period as
\* its cycle_period; and a call that threw left parameters,
\* parameter_values, the parameter count and cardiac_cycle_period as they
\* were before it.
C13_CyclePeriod ==
    /\ \A i \in 1..Len(model.parameters) :
          LET p == model.parameters[i]
          IN  (p.is_periodic /\ ~p.isconstant)
                  => Parameter_cycle_period(p) = model.cardiac_cycle_period
    /\ saved.thrown =>
          /\ model.parameters = saved.model.parameters
          /\ model.parameter_values = saved.model.parameter_values
          /\ Len(model.parameters) = Len(saved.model.parameters)
          /\ model.cardiac_cycle_period = saved.model.cardiac_cycle_period

\* a curve of another period was refused by a model that holds a periodic
\* curve
C13_Witness ==
    /\ saved.thrown
    /\ \E i \in 1..Len(model.parameters) :
          /\ model.parameters[i].is_periodic
          /\ ~model.parameters[i].isconstant
    /\ \E i \in 1..Len(model.parameters) :
          /\ ~model.parameters[i].is_periodic
          /\ ~model.parameters[i].isconstant
          /\ Parameter_cycle_period(model.parameters[i])
                 # model.cardiac_cycle_period


\* a model as load_simulation_model builds it from a well-formed network:
\* no hidden block, every flow boundary condition at the inlet of one node,
\* every RCR block at the outlet of one node, every junction with an inlet
\* and an outlet
ValidTopology(m) ==
    /\ m.hidden_blocks = <<>>
    /\ ~m.crashed
    /\ \A k \in 1..Len(m.block_types) :
          CASE m.block_types[k] = "FLOWBC" ->
                   Len(m.inlet_nodes[k]) = 0 /\ Len(m.outlet_nodes[k]) = 1
            [] m.block_types[k] = "WINDKESSELBC" ->
                   Len(m.inlet_nodes[k]) = 1 /\ Len(m.outlet_nodes[k]) = 0
            [] OTHER ->
                   Len(m.inlet_nodes[k]) >= 1 /\ Len(m.outlet_nodes[k]) >= 1

\* the equations and internal variables the first k blocks declare
RECURSIVE DeclaredDofs(_, _)
DeclaredDofs(m, k) ==
    IF k = 0 THEN [equations |-> 0, internal |-> 0]
    ELSE [equations |-> DeclaredDofs(m, k - 1).equations
                            + Block_num_equations(m, k - 1),
          internal |-> DeclaredDofs(m, k - 1).internal
                            + Block_num_internal(m, k - 1)]

\* C14: after finalize() on a valid model the dofhandler holds two
\* variables per node plus the internal variables the blocks declare, the
\* equations the blocks declare, and as many equations as variables.
C14_Square ==
    (model.finalized /\ ValidTopology(model)) =>
        LET declared == DeclaredDofs(model, Len(model.block_types))
        IN  /\ model.dofhandler.variables
                   = 2 * Len(model.nodes) + declared.internal
            /\ model.dofhandler.equations = declared.equations
            /\ model.dofhandler.equations = model.dofhandler.variables

\* a finalized flow boundary condition, junction and RCR block in a row
C14_Witness ==
    /\ model.finalized
    /\ ValidTopology(model)
    /\ Len(model.nodes) = 2
    /\ \E k \in 1..Len(model.block_types) : model.block_types[k] = "JUNCTION"
    /\ \E k \in 1..Len(model.block_types) : model.block_types[k] = "WINDKESSELBC"
    /\ model.dofhandler.variables = 5


\* the number of setup_dofs calls finalize() made on a node or block
SetupDofsCalls(what, id) ==
    Cardinality({i \in DOMAIN model.setup_dofs_calls :
                    model.setup_dofs_calls[i] = <<what, id>>})

\* C15: finalize() has called setup_dofs exactly once on every node and
\* exactly once on every block, the hidden blocks included, and every call
\* on a node precedes every call on a block.
C15_SetupDofsOnce ==
    model.finalized =>
        /\ \A n \in 0..(Len(model.nodes) - 1) : SetupDofsCalls("node", n) = 1
        /\ \A b \in 0..(Len(model.block_types) - 1) : SetupDofsCalls("block", b) = 1
        /\ \A i, j \in DOMAIN model.setup_dofs_calls :
              (/\ model.setup_dofs_calls[i][1] = "node"
               /\ model.setup_dofs_calls[j][1] = "block") => i < j

\* C15, as the code has it: finalize() calls setup_dofs once on every
\* node, then once on every element of blocks, and not on the elements of
\* hidden_blocks.
C15_SetupDofsOfBlocks ==
    model.finalized =>
        /\ \A n \in 0..(Len(model.nodes) - 1) : SetupDofsCalls("node", n) = 1
        /\ \A k \in 1..Len(model.blocks) :
              SetupDofsCalls("block", model.blocks[k]) = 1
        /\ \A k \in 1..Len(model.hidden_blocks) :
              SetupDofsCalls("block", model.hidden_blocks[k]) = 0
        /\ \A i, j \in DOMAIN model.setup_dofs_calls :
              (/\ model.setup_dofs_calls[i][1] = "node"
               /\ model.setup_dofs_calls[j][1] = "block") => i < j


\* a finalized model with a node, a block and a hidden block
C15_Witness ==
    /\ model.finalized
    /\ Len(model.nodes) >= 1
    /\ Len(model.blocks) >= 1
    /\ Len(model.hidden_blocks) >= 1
    /\ Len(model.setup_dofs_calls) = Len(model.nodes) + Len(model.blocks)


\* the id add_block returned for the block added under name
BlockIdOf(name) ==
    (CHOOSE k \in 1..Len(model.block_names) : model.block_names[k] = name) - 1

\* the number of times x occurs in the sequence list
Occurrences(list, x) == Cardinality({i \in DOMAIN list : list[i] = x})

\* C16: a model loaded without hidden blocks has one node per connection;
\* the node of connection (a, b) is once in a's outlet_nodes and once in
\* b's inlet_nodes, and after finalize() its pressure and flow dofs are
\* among the global_var_ids of a and of b.
C16_NodePerConnection ==
    (model.hidden_blocks = <<>> /\ ~model.crashed) =>
        /\ Len(model.nodes) = Len(calls)
        /\ \A n \in 1..Len(calls) :
              LET a == BlockIdOf(calls[n][1])
                  b == BlockIdOf(calls[n][2])
                  node == model.nodes[n]
              IN  /\ Occurrences(model.outlet_nodes[a + 1], n - 1) = 1
                  /\ Occurrences(model.inlet_nodes[b + 1], n - 1) = 1
                  /\ model.finalized =>
                        \A dof \in {node.pres_dof, node.flow_dof} :
                            /\ dof >= 0
                            /\ Occurrences(model.global_var_ids[a + 1], dof) = 1
                            /\ Occurrences(model.global_var_ids[b + 1], dof) = 1

\* three connections between three blocks, finalized
C16_Witness ==
    /\ model.hidden_blocks = <<>>
    /\ ~model.crashed
    /\ model.finalized
    /\ Len(calls) = 3
    /\ Len(model.blocks) = 3
    /\ \E i, j \in 1..3 : i # j /\ calls[i][2] = calls[j][2]


\* the elements of a sequence
Elements(list) == {list[i] : i \in DOMAIN list}

\* the nodes connected to block b, inlets first
Connected(b) == model.inlet_nodes[b + 1] \o model.outlet_nodes[b + 1]

\* block b is a junction of blocks with at least two connected nodes, all
\* of them different
IsJunction(b) ==
    /\ b \in Elements(model.blocks)
    /\ model.block_types[b + 1] = "JUNCTION"
    /\ Len(Connected(b)) >= 2
    /\ Cardinality(Elements(Connected(b))) = Len(Connected(b))

\* the entries of F the claim gives a junction
JunctionEntries(b) ==
    LET eqn == model.global_eqn_ids[b + 1]
        n == Len(Connected(b))
        pres(k) == model.nodes[Connected(b)[k] + 1].pres_dof
        flow(node) == model.nodes[node + 1].flow_dof
    IN  {<<eqn[i], pres(1), One>> : i \in 1..(n - 1)}
        \cup {<<eqn[i], pres(i + 1), RNeg(One)>> : i \in 1..(n - 1)}
        \cup {<<eqn[n], flow(node), One>> :
                 node \in Elements(model.inlet_nodes[b + 1])}
        \cup {<<eqn[n], flow(node), RNeg(One)>> :
                 node \in Elements(model.outlet_nodes[b + 1])}

\* the entries of matrix M in the rows of block b
RowsOf(M, b) == {e \in M : e[1] \in Elements(model.global_eqn_ids[b + 1])}

\* C17: after update_constant the rows of a junction with m inlets and n
\* outlets hold in F, in m + n rows, +1 at the pressure dof of the first
\* node and -1 at the pressure dof of the next node in each of the first
\* m + n - 1 rows, and +1 at the flow dof of every inlet and -1 at the flow
\* dof of every outlet in the last row; they hold nothing in E, c, dE, dF
\* and dC.
C17_JunctionRows ==
    run.pc \in {"updated", "timed"} =>
        \A b \in 0..(Len(model.block_types) - 1) :
            IsJunction(b) =>
                /\ RowsOf(system.F, b) = JunctionEntries(b)
                /\ Cardinality({e[1] : e \in RowsOf(system.F, b)})
                       = Len(Connected(b))
                /\ \A M \in {system.E, system.C, system.dE, system.dF, system.dC} :
                       RowsOf(M, b) = {}

\* update_constant was called on a junction with two inlets and an outlet
C17_Witness ==
    /\ run.pc = "updated"
    /\ \E b \in 0..(Len(model.block_types) - 1) :
          /\ IsJunction(b)
          /\ Len(model.inlet_nodes[b + 1]) = 2
          /\ Len(model.outlet_nodes[b + 1]) = 1
          /\ Cardinality(RowsOf(system.F, b)) = 7


\* the distinct (row, column) places of the entries of M in the rows of b
Places(M, b) == {<<e[1], e[2]>> : e \in RowsOf(M, b)}

\* the distinct (row, column) places of all entries of M
AllPlaces(M) == {<<e[1], e[2]>> : e \in M}

\* C18: after a pass of update_constant and update_time, every junction
\* and every flow boundary condition of blocks declares at least as many
\* triplets for F, E and D as it has written distinct entries into F, E and
\* dE, dF, dC; and get_num_triplets() of a model of such blocks is at least
\* the number of entries of each matrix.
C18_TripletsBound ==
    run.pc = "timed" =>
        /\ \A k \in 1..Len(model.blocks) :
              LET b == model.blocks[k]
                  declared == Block_get_num_triplets(model, b)
              IN  model.block_types[b + 1] \in {"JUNCTION", "FLOWBC"} =>
                      /\ declared.F >= Cardinality(Places(system.F, b))
                      /\ declared.E >= Cardinality(Places(system.E, b))
                      /\ declared.D >= Cardinality(Places(system.dE, b))
                                         + Cardinality(Places(system.dF, b))
                                         + Cardinality(Places(system.dC, b))
        /\ (\A k \in 1..Len(model.blocks) :
               model.block_types[model.blocks[k] + 1] \in {"JUNCTION", "FLOWBC"}) =>
              /\ Model_get_num_triplets(model).F >= Cardinality(AllPlaces(system.F))
              /\ Model_get_num_triplets(model).E >= Cardinality(AllPlaces(system.E))
              /\ Model_get_num_triplets(model).D
                     >= Cardinality(AllPlaces(system.dE))
                        + Cardinality(AllPlaces(system.dF))
                        + Cardinality(AllPlaces(system.dC))

\* a junction with three nodes and a flow boundary condition have written
\* as many entries as they declare
C18_Witness ==
    /\ run.pc = "timed"
    /\ \E j, f \in 1..Len(model.blocks) :
          /\ model.block_types[model.blocks[j] + 1] = "JUNCTION"
          /\ Len(Connected(model.blocks[j])) = 3
          /\ Cardinality(Places(system.F, model.blocks[j])) = 7
          /\ model.block_types[model.blocks[f] + 1] = "FLOWBC"
          /\ Cardinality(Places(system.F, model.blocks[f])) = 1


\* the sum of the num_triplets of the blocks with an id below k that are in
\* the set ids
RECURSIVE TripletsOf(_, _)
TripletsOf(ids, k) ==
    IF k = 0 THEN [F |-> 0, E |-> 0, D |-> 0]
    ELSE LET prev == TripletsOf(ids, k - 1)
             elem == IF (k - 1) \in ids
                     THEN Block_get_num_triplets(model, k - 1)
                     ELSE [F |-> 0, E |-> 0, D |-> 0]
         IN  [F |-> prev.F + elem.F, E |-> prev.E + elem.E, D |-> prev.D + elem.D]

\* C19: get_num_triplets() of a finalized model is, for each of F, E and D,
\* the sum of the counts of all its blocks, the hidden blocks included.
C19_AllBlocks ==
    model.finalized =>
        Model_get_num_triplets(model)
            = TripletsOf(0..(Len(model.block_types) - 1), Len(model.block_types))

\* C19, as the code has it: get_num_triplets() is the sum of the counts of
\* the elements of blocks, and leaves the hidden blocks out.
C19_BlocksOnly ==
    model.finalized =>
        Model_get_num_triplets(model)
            = TripletsOf(Elements(model.blocks), Len(model.block_types))

\* a finalized model with a hidden flow boundary condition next to blocks
\* that declare triplets
C19_Witness ==
    /\ model.finalized
    /\ \E k \in 1..Len(model.hidden_blocks) :
          model.block_types[model.hidden_blocks[k] + 1] = "FLOWBC"
    /\ Len(model.blocks) = 2
    /\ Model_get_num_triplets(model).F >= 2


\* C20: whatever blocks were added, with internal and other calls in any
\* order, get_block(id) is the block of the add_block call that returned
\* id and get_block(name) is the block added under name.
C20_GetBlock ==
    \A k \in 1..Len(model.block_names) :
        /\ Model_get_block(model, k - 1) = k - 1
        /\ Model_get_block_by_name(model, model.block_names[k]) = k - 1

\* what holds of the lookups: they return the right block as long as no
\* internal block was added before a block that is not internal
C20_InternalLast ==
    (\A i \in 1..Len(model.hidden_blocks), j \in 1..Len(model.blocks) :
         model.blocks[j] < model.hidden_blocks[i]) =>
        \A k \in 1..Len(model.block_names) :
            /\ Model_get_block(model, k - 1) = k - 1
            /\ (k - 1) \in Elements(model.blocks) =>
                   Model_get_block_by_name(model, model.block_names[k]) = k - 1


\* the parameter table holds every parameter at the model's time
ValuesRefreshed ==
    \A id \in 1..Len(model.parameters) :
        model.parameter_values[id] = Parameter_get(model.parameters[id], model.time)

\* the entry of C a flow boundary condition wrote is the flow at the
\* model's time
FlowFromRefreshed ==
    \A k \in 1..Len(model.blocks) :
        LET b == model.blocks[k]
        IN  model.block_types[b + 1] = "FLOWBC" =>
                <<model.global_eqn_ids[b + 1][1], 0,
                  RNeg(Parameter_get(
                           model.parameters[model.global_param_ids[b + 1][1] + 1],
                           model.time))>> \in system.C

\* C21: after update_time(system, t) every parameter value is its
\* parameter's get(t), whatever update_parameter_value stored before, and
\* the blocks' update_time have worked with the refreshed values;
\* update_constant leaves parameter_values as they are.
C21_Refreshed ==
    /\ [](run.pc = "timed" => (ValuesRefreshed /\ FlowFromRefreshed))
    /\ [][(run.pc = "load" /\ run'.pc = "updated") =>
             model'.parameter_values = model.parameter_values]_vars

\* update_time at t = 1/2 after update_parameter_value overwrote the value
\* of a flow curve
C21_Witness ==
    /\ run.pc = "timed"
    /\ model.time = Half
    /\ Len(resids) = 1
    /\ ~model.parameters[resids[1][1] + 1].isconstant
    /\ model.parameter_values[resids[1][1] + 1] = R(2)


(***************************************************************************)
(* C22: what Integrator::step changes in the Model.                        *)
(***************************************************************************)
\* the model apart from its current time and its table of parameter values
ModelFrame(m) ==
    [m EXCEPT !.time = Zero, !.parameter_values = <<>>]

\* C22 (as claimed): during an Integrator.step call no part of the Model is
\* modified: parameters, parameter values, current time, steady flags and
\* topology are the same after every statement of the step as before it.
C22_ModelUnmodified ==
    [][model' = model]_vars

\* C22 (amended): a step changes the Model only through its one call of
\* update_time, which sets the current time to new_time = time + alpha_f * dt
\* and re-evaluates the parameter value table at that time; parameters,
\* blocks, steady flags and topology are the same after the step as before.
C22_TimeAndValuesOnly ==
    /\ [][/\ ModelFrame(model') = ModelFrame(model)
          /\ model' # model => (stp.pc = "update_time" /\ stp'.pc = "loop")
          /\ (stp.pc = "update_time" /\ stp'.pc = "loop") =>
                /\ model'.time = stp.new_time
                /\ \A k \in 1..Len(model.parameters) :
                      model'.parameter_values[k] =
                          Parameter_get(model.parameters[k], stp.new_time)]_vars
    /\ [](stp.pc \notin {"idle", "update_time"} => model.time = stp.new_time)

\* a step has returned a state and the model's time is no longer the time it
\* had when the step was called
C22_Witness ==
    /\ stp.pc = "done"
    /\ model.time = stp.new_time
    /\ model.time # stp.time
    /\ model.parameters = StepModel(One).parameters
    /\ model.blocks = StepModel(One).blocks


(***************************************************************************)
(* C23: pattern analyses of the sparse LU.                                 *)
(***************************************************************************)
\* the number of system.solve() calls made so far
SolveCalls ==
    Cardinality({j \in DOMAIN calls : calls[j][1] = "solve"})

\* C23 (as claimed): the sparsity pattern of the Jacobian is analyzed
\* exactly once; every SparseSystem.solve() call after the first only
\* re-factorizes, so once a solve was made the number of analyses is one.
C23_AnalyzedOnce ==
    (kind = "sparse" /\ SolveCalls >= 1) => system.analyses = 1

\* what SparseSystem::solve does: one pattern analysis in every call
C23_AnalyzedPerSolve ==
    system.analyses = IF kind = "sparse" THEN SolveCalls ELSE 0

\* a step of a sparse system in which solve() was called twice
C23_TwoSolves ==
    /\ kind = "sparse"
    /\ SolveCalls = 2
    /\ system.analyses = 2
    /\ stp.pc = "done"


(***************************************************************************)
(* C24, C25: the main loop of run() and its output.                        *)
(***************************************************************************)
\* the steps of the main integrator that returned a state, in order
MainSteps ==
    SelectSeq(run.log, LAMBDA e : e.call = "main_step")

\* the state the k-th main step returned: the argument of the next one, or
\* the current state after the last one
StateAfter(k) ==
    IF k < Len(MainSteps) THEN MainSteps[k + 1].state ELSE run.state

\* C24: with output_last_cycle_only false the main loop performs exactly
\* num_time_steps - 1 integrator steps, the i-th called with time
\* dt * (i - 1); the initial state is recorded at time 0 and the state after
\* every output_interval-th step at time dt * i, so times and states have
\* the same length, 1 + floor((num_time_steps - 1) / output_interval) at the
\* end.
C24_AllCycles ==
    (~run.output_last_cycle_only /\ run.pc \in {"main_loop", "done"}) =>
        LET n == Len(MainSteps)
            dt == run.sim_time_step_size
            oi == run.output_interval
        IN  /\ n = run.i - 1
            /\ n <= run.sim_num_time_steps - 1
            /\ run.pc = "done" => n = run.sim_num_time_steps - 1
            /\ \A k \in 1..n :
                  /\ MainSteps[k].time = RMul(dt, R(k - 1))
                  /\ MainSteps[k].time_step_size = dt
            /\ Len(run.times) = 1 + (n \div oi)
            /\ Len(run.states) = Len(run.times)
            /\ run.times[1] = Zero
            /\ run.states[1] = StateAfter(0)
            /\ \A j \in 1..(n \div oi) :
                  /\ run.times[j + 1] = RMul(dt, R(j * oi))
                  /\ run.states[j + 1] = StateAfter(j * oi)

\* a finished run of five time steps with every second state recorded
C24_Witness ==
    /\ run.pc = "done"
    /\ ~run.output_last_cycle_only
    /\ run.output_interval = 2
    /\ run.sim_num_time_steps = 5
    /\ Len(MainSteps) = 4
    /\ Len(run.times) = 3
    /\ run.times[3] = RMul(run.sim_time_step_size, R(4))


\* C25: with output_last_cycle_only true every recorded state comes from a
\* step index i >= start_last_cycle = num_time_steps - pts_per_cycle, the
\* first recorded state is the one at i = start_last_cycle for every
\* output_interval (the later ones follow every output_interval steps), the
\* recorded times are shifted at the end so that the first one is 0, and
\* for output_interval = 1 exactly pts_per_cycle states are recorded.
C25_LastCycle ==
    (run.output_last_cycle_only /\ run.pc \in {"main_loop", "done"}) =>
        LET n == Len(MainSteps)
            dt == run.sim_time_step_size
            oi == run.output_interval
            start == run.sim_num_time_steps - run.sim_pts_per_cycle
            recorded == IF n < start THEN 0 ELSE 1 + ((n - start) \div oi)
        IN  /\ n = run.i - 1
            /\ Len(run.states) = recorded
            /\ Len(run.times) = recorded
            /\ \A j \in 1..recorded :
                  /\ run.states[j] = StateAfter(start + (j - 1) * oi)
                  /\ run.times[j] =
                        IF run.pc = "done" THEN RMul(dt, R((j - 1) * oi))
                        ELSE RMul(dt, R(start + (j - 1) * oi))
            /\ run.pc = "done" =>
                  /\ n = run.sim_num_time_steps - 1
                  /\ run.times[1] = Zero
                  /\ oi = 1 => Len(run.states) = run.sim_pts_per_cycle

\* a finished run of two cycles of three points with every second state of
\* the last cycle recorded: the states after steps 2 and 4
C25_Witness ==
    /\ run.pc = "done"
    /\ run.output_last_cycle_only
    /\ run.output_interval = 2
    /\ run.sim_num_time_steps = 5
    /\ run.sim_pts_per_cycle = 3
    /\ Len(run.states) = 2
    /\ run.states[1] = StateAfter(2)
    /\ run.times = <<Zero, RMul(run.sim_time_step_size, R(2))>>


(***************************************************************************)
(* C26: the time stepping load_simulation_params and run() derive.         *)
(***************************************************************************)
\* C26: if the simulation is not coupled, num_time_steps =
\* (pts_per_cycle - 1) * num_cycles + 1 and dt = cardiac_cycle_period /
\* (pts_per_cycle - 1), so the steps span num_cycles periods; if it is
\* coupled, num_time_steps = number_of_time_pts, pts_per_cycle =
\* num_time_steps, num_cycles = 1 and dt = external_step_size /
\* (num_time_steps - 1).
C26_TimeStepping ==
    run.pc \notin {"none", "check_clh", "cycle_period"} =>
        LET sim_config == run.config.simulation_parameters
        IN  IF ~sim_config.coupled_simulation
            THEN /\ ~run.sim_coupled
                 /\ run.sim_num_cycles = sim_config.number_of_cardiac_cycles
                 /\ run.sim_pts_per_cycle =
                        sim_config.number_of_time_pts_per_cardiac_cycle
                 /\ run.sim_num_time_steps =
                        (run.sim_pts_per_cycle - 1) * run.sim_num_cycles + 1
                 /\ run.sim_time_step_size =
                        RDiv(model.cardiac_cycle_period,
                             R(run.sim_pts_per_cycle - 1))
                 /\ RMul(run.sim_time_step_size, R(run.sim_num_time_steps - 1)) =
                        RMul(R(run.sim_num_cycles), model.cardiac_cycle_period)
            ELSE /\ run.sim_coupled
                 /\ run.sim_num_time_steps = sim_config.number_of_time_pts
                 /\ run.sim_pts_per_cycle = run.sim_num_time_steps
                 /\ run.sim_num_cycles = 1
                 /\ run.sim_time_step_size =
                        RDiv(sim_config.external_step_size,
                             R(run.sim_num_time_steps - 1))

\* a coupled run of four time points over an external step of 1/10 that
\* has taken a step of size 1/30
C26_Witness ==
    /\ run.pc = "main_loop"
    /\ run.sim_coupled
    /\ run.sim_num_time_steps = 4
    /\ run.sim_time_step_size = <<1, 30>>
    /\ Len(MainSteps) = 1
    /\ MainSteps[1].time_step_size = <<1, 30>>


(***************************************************************************)
(* C27: the state load_initial_condition returns.                          *)
(***************************************************************************)
StartsWith(name, prefix) ==
    /\ Len(name) >= Len(prefix)
    /\ SubSeq(name, 1, Len(prefix)) = prefix

\* C27: for every variable v, y[v] is the value given for v's name in
\* initial_condition if present; otherwise pressure_all if that key is
\* present and the name starts with "pressure:" or "P_c:"; otherwise
\* flow_all if that key is present and the name starts with "flow:";
\* otherwise 0; ydot[v] is the value given for the name in
\* initial_condition_d if present, otherwise 0; with neither
\* initial_condition nor initial_condition_d the state is all zeros.
C27_InitialCondition ==
    run.pc = "loaded" =>
        LET ic == run.config.initial_condition
            icd == run.config.initial_condition_d
        IN  /\ Len(run.state.y) = Len(run.variables)
            /\ Len(run.state.ydot) = Len(run.variables)
            /\ \A v \in 1..Len(run.variables) :
                  LET name == run.variables[v]
                  IN  /\ run.state.y[v] =
                            IF ~run.config.contains_initial_condition THEN Zero
                            ELSE IF name \in DOMAIN ic THEN ic[name]
                            ELSE IF /\ PressureAll \in DOMAIN ic
                                    /\ \/ StartsWith(name, PressurePrefix)
                                       \/ StartsWith(name, PcPrefix)
                                 THEN ic[PressureAll]
                            ELSE IF /\ FlowAll \in DOMAIN ic
                                    /\ StartsWith(name, FlowPrefix)
                                 THEN ic[FlowAll]
                            ELSE Zero
                      /\ run.state.ydot[v] =
                            IF ~run.config.contains_initial_condition_d THEN Zero
                            ELSE IF name \in DOMAIN icd THEN icd[name]
                            ELSE Zero
            /\ (/\ ~run.config.contains_initial_condition
                /\ ~run.config.contains_initial_condition_d) =>
                  \A v \in 1..Len(run.variables) :
                      run.state.y[v] = Zero /\ run.state.ydot[v] = Zero

\* a state loaded with pressure_all and flow_all, the pressure of the node
\* given by name: the named value, pressure_all for P_c, flow_all for the
\* flow, 0 for V_c and for the name "flow"
C27_Witness ==
    /\ run.pc = "loaded"
    /\ run.config.contains_initial_condition
    /\ run.config.contains_initial_condition_d
    /\ run.state.y = <<R(2), R(7), R(5), Zero, Zero>>
    /\ run.state.ydot = <<Zero, Zero, Zero, R(6), Zero>>


(***************************************************************************)
(* C28: the capacitance over several to_steady()/to_unsteady() pairs.      *)
(***************************************************************************)
\* the value of the parameter with an id in a model
CapacitanceOf(m, id) == Parameter_get(m.parameters[id + 1], Zero)

\* C28: after any sequence of to_steady()/to_unsteady() pairs on a model
\* (without internal blocks), with the capacitance of a Windkessel or
\* ClosedLoopRCR block possibly updated between pairs, each to_unsteady()
\* restores that capacitance to the value it had immediately before the
\* matching to_steady(), not to a value cached by an earlier pair.
C28_RestoresLatest ==
    (saved.roundtrip /\ ~model.crashed /\ model.hidden_blocks = <<>>) =>
        \A id \in CapacitanceIds(model) :
            CapacitanceOf(model, id) = CapacitanceOf(saved.model, id)

\* what to_unsteady() restores: the value the first to_steady() cached
C28_RestoresFirstCached ==
    (saved.roundtrip /\ ~model.crashed /\ model.hidden_blocks = <<>>) =>
        \A id \in CapacitanceIds(model) :
            <<id, CapacitanceOf(model, id)>> \in model.param_value_cache


(***************************************************************************)
(* C30: the junction on the dense System and on the SparseSystem.          *)
(***************************************************************************)
\* the entries Junction::update_constant(SparseSystem &) writes for block b
\* into an empty F
SparseJunctionF(b) == Junction_update_constant(NewSparseSystem, model, b).F

\* C30: for the same global_eqn_ids and global_var_ids and every number of
\* inlets and outlets, the dense Junction::update_constant and the sparse
\* one write the same set of (row, column, value) entries into F.
C30_SameEntries ==
    run.pc = "dense_updated" =>
        \A b \in 0..(Len(model.block_types) - 1) :
            IsJunction(b) => RowsOf(system.F, b) = SparseJunctionF(b)

\* what the two agree on: the pressure rows, the first m + n - 1 equations
C30_SamePressureRows ==
    run.pc = "dense_updated" =>
        \A b \in 0..(Len(model.block_types) - 1) :
            IsJunction(b) =>
                LET last == model.global_eqn_ids[b + 1][Len(Connected(b))]
                IN  {e \in RowsOf(system.F, b) : e[1] # last}
                        = {e \in SparseJunctionF(b) : e[1] # last}

\* a junction of one inlet and one outlet on the dense System: its last row
\* holds +1 at the pressure and -1 at the flow of the inlet
C30_DenseMassRow ==
    /\ run.pc = "dense_updated"
    /\ \E b \in 0..(Len(model.block_types) - 1) :
          /\ IsJunction(b)
          /\ Len(model.inlet_nodes[b + 1]) = 1
          /\ Len(model.outlet_nodes[b + 1]) = 1
          /\ LET var == model.global_var_ids[b + 1]
                 last == model.global_eqn_ids[b + 1][2]
             IN  /\ <<last, var[1], One>> \in system.F
                 /\ <<last, var[2], RNeg(One)>> \in system.F
                 /\ <<last, var[2], One>> \in SparseJunctionF(b)
                 /\ <<last, var[4], RNeg(One)>> \in SparseJunctionF(b)


(***************************************************************************)
(* C29: the residual test of a step that returns a state.                  *)
(***************************************************************************)
\* the last residual evaluated was below atol
LastEvaluationPassed ==
    /\ Len(resids) >= 1
    /\ RLt(resids[Len(resids)], integ.atol)

\* C29 (as claimed): for every value of max_iter, max_iter <= 0 included,
\* whenever Integrator.step returns a state the residual test
\* max|residual| < atol was evaluated at least once in that call and passed
\* on its last evaluation.
C29_AlwaysTested ==
    stp.pc = "done" => LastEvaluationPassed

\* C29 (amended): for max_iter >= 1, whenever Integrator.step returns a
\* state the residual test was evaluated at least once and passed on its
\* last evaluation; for max_iter = 0 the loop body is never entered, and the
\* step returns the corrected predictor without having evaluated a residual,
\* called update_solution or solved.
C29_TestedIfIterating ==
    stp.pc = "done" =>
        IF integ.max_iter >= 1
        THEN LastEvaluationPassed
        ELSE /\ resids = <<>>
             /\ calls = <<<<"update_time", stp.new_time>>>>
             /\ stp.new_state = Corrector(integ, stp.old_state)

\* a step with max_iter = 0 has returned a state whose system was never
\* evaluated
C29_Witness ==
    /\ stp.pc = "done"
    /\ integ.max_iter = 0
    /\ resids = <<>>
    /\ stp.new_state.y # stp.old_state.y

=============================================================================
